---- MODULE Spec2Model ----
(***************************************************************************)
(* AudioMoth Flash App: the dispatcher (app.js), the serial and USB-HID    *)
(* flashers (communication.js) and the progress-bar handlers (main.js) as  *)
(* one state machine over the JavaScript event loop.                       *)
(*                                                                         *)
(* The program is single-threaded: a handler runs to completion, and the   *)
(* callbacks it leaves behind (timers, awaited I/O) wait in the event      *)
(* loop.  Every operator below that is named after a source function takes *)
(* the whole program state w and returns the state after the call, so a    *)
(* handler is the composition of the calls it makes, in source order.      *)
(* Every action takes one callback out of the event loop (or one user or   *)
(* device event) and runs its handler to completion.                       *)
(***************************************************************************)
EXTENDS Integers, Sequences, FiniteSets, TLC

VARIABLES
    comms,      \* module-level variables of communication.js
    app,        \* module-level variables and DOM properties of app.js
    mainProc,   \* main.js: the progress bar
    loop,       \* the event loop: pending timers and awaited I/O, with their closures
    env,        \* the device, the serial line and the user-input budget
    obs         \* history: what each job was asked, chose, sent and reported

vars == <<comms, app, mainProc, loop, env, obs>>

----------------------------------------------------------------------------
(* Program constants *)

MAXIMUM_RETRIES == 10
MAXIMUM_FIRMWARE_PACKET_SIZE == 56
NUMBER_OF_BUFFER_TO_SEND == 60
MAX_READY_CHECK_COUNT == 7
RESET_TIMEOUT_LENGTH == 7500
RESET_CHECK_TIMEOUT_LENGTH == 100
MAX_USER_DATA_CHECK_COUNT == 5
BLOCK_SIZE == 128
MAX_REPEATS == 10
USER_DATA_BLOCKS == 16

STATUS_SERIAL_BOOTLOADER == 1
STATUS_NO_AUDIOMOTH == 2
STATUS_AUDIOMOTH_AUTO == 3
STATUS_AUDIOMOTH_MANUAL == 4
STATUS_AUDIOMOTH_USB == 5

MAX_FILE_SIZE == 245760
MAX_FILE_SIZE_DESTRUCTIVE == 262144
MAX_USBHID == 212992
MAX_CLEAR_USER_DATA_ATTEMPTS == 5
MAX_PORT_OPEN_ATTEMPTS == 5
MAX_BOOTLOADER_VERSION_ATTEMPTS == 5

TAB_DOWNLOAD == 0
TAB_LOCAL == 1

bootloaderCRC == <<"A", "4", "3", "5">>

(* USB HID bootloader commands *)
AM_BOOTLOADER_INITIALISE_SRAM == 2
AM_BOOTLOADER_CLEAR_USER_DATA == 3
AM_BOOTLOADER_SET_SRAM_FIRMWARE_PACKET == 4
AM_BOOTLOADER_CALC_SRAM_FIRMWARE_CRC == 5
AM_BOOTLOADER_GET_FIRMWARE_CRC == 7
AM_BOOTLOADER_FLASH_FIRMWARE == 8

----------------------------------------------------------------------------
(* Bounds of the model *)

MaxJobs == 2          \* flash requests accepted in one behaviour
MaxProbes == 1        \* status probes in flight at once
MaxOverlap == 2       \* status probes in flight at once when the probes may overlap
MaxPlugEvents == 1    \* times the device is attached, detached or swapped
MaxFaults == 1        \* transient faults: a port 'error', a reply that is garbled or late
WireCap == 1          \* device replies in transit on the serial line
ImageLen == 200       \* bytes of a firmware image

----------------------------------------------------------------------------
(* Values *)

NoCRC == <<>>          \* expectedCRC === undefined

HexChar == <<"0", "1", "2", "3", "4", "5", "6", "7",
             "8", "9", "A", "B", "C", "D", "E", "F">>

\* ('0000' + n.toString(16).toUpperCase()).slice(-4)
Hex4(n) ==
    <<HexChar[((n \div 4096) % 16) + 1], HexChar[((n \div 256) % 16) + 1],
      HexChar[((n \div 16) % 16) + 1], HexChar[(n % 16) + 1]>>

\* CRC strings of release notes and device reports: [A-Z0-9]{4}
CRCStrings == {bootloaderCRC, <<"9", "9", "9", "9">>}

\* a closure or a pending callback: the function (k) and what it captured
Item(k, j, ph, n) == [k |-> k, j |-> j, ph |-> ph, n |-> n, h |-> FALSE, u |-> FALSE, s |-> FALSE]
NoFn == Item("none", 0, "-", 0)

Min(a, b) == IF a < b THEN a ELSE b
Max(a, b) == IF a > b THEN a ELSE b

----------------------------------------------------------------------------
(* The event loop: setTimeout / clearTimeout and awaited promises *)

World == [c |-> comms, a |-> app, m |-> mainProc, l |-> loop, e |-> env, o |-> obs]

\* an awaited promise or a timer whose handle is not kept
defer(w, it) == [w EXCEPT !.l = @ \cup {it}]

\* handle = setTimeout(...): the timer the handle named before is no longer reachable
setTimeout(w, it) ==
    [w EXCEPT !.l = {IF p.k = it.k THEN [p EXCEPT !.h = FALSE] ELSE p : p \in @}
                    \cup {[it EXCEPT !.h = TRUE]}]

\* clearTimeout(handle): cancels the timer the handle names, if it is still pending
clearTimeout(w, k) == [w EXCEPT !.l = {p \in @ : ~(p.k = k /\ p.h)}]

\* the callback `it` leaves the event loop to run
take(w, it) == [w EXCEPT !.l = @ \ {it}]

----------------------------------------------------------------------------
(* What the user sees (main.js) *)

\* a terminal outcome of job j reaches the user; remember whether the port was open
report(w, j, what) ==
    [w EXCEPT !.o.openAtReport = @ \/ (w.c.port = "open"),
              !.o.aborted = IF what = "aborted" /\ j > 0
                            THEN [@ EXCEPT ![j] = Min(@ + 1, 2)] ELSE @,
              !.o.completed = IF what = "completed" /\ j > 0
                              THEN [@ EXCEPT ![j] = Min(@ + 1, 2)] ELSE @]

\* ipcMain.on('set-bar-aborted'): the bar is closed and its 'aborted' event drops it
setBarAborted(w) == [w EXCEPT !.m.flashProgressBar = FALSE]

\* ipcMain.on('start-bar')
startBar(w) == [w EXCEPT !.m.flashProgressBar = TRUE]

\* ipcMain.on('set-bar-completed'): flash-success follows 3 s later, if there is a bar
setBarCompleted(w, j) ==
    IF w.m.flashProgressBar THEN defer(w, Item("mainCompleted", j, "-", 0)) ELSE w

\* ipcMain.on('set-bar-bootloader-update-completed')
setBarBootloaderUpdateCompleted(w, j) ==
    IF w.m.flashProgressBar THEN defer(w, Item("mainBootloaderUpdated", j, "-", 0)) ELSE w

displayError(w, j) == report(setBarAborted(w), j, "aborted")

----------------------------------------------------------------------------
(* communication.js: port and busy flag *)

closePort(w) ==
    IF w.c.port = "open" THEN [w EXCEPT !.c.port = "closed"] ELSE w

startCommunicating(w) == [w EXCEPT !.c.communicating = TRUE]

stopCommunicating(w) == closePort([w EXCEPT !.c.communicating = FALSE])

failFlash(w, j) == [displayError(w, j) EXCEPT !.c.flashFailed = TRUE]

\* the job's parameters as its closures hold them: the updater sub-flash is
\* non-destructive and expects bootloaderCRC
Destructive(w, j, ph) == IF ph = "upd" THEN FALSE ELSE w.o.jobs[j].destructive
ExpectedCRC(w, j, ph) == IF ph = "upd" THEN bootloaderCRC ELSE w.o.jobs[j].crc

\* Math.ceil(size / BLOCK_SIZE): splitBuffers.length
NumBlocks(len) == (len + BLOCK_SIZE - 1) \div BLOCK_SIZE

----------------------------------------------------------------------------
(* The serial line: what is written, what is expected, what arrives *)

Req(t, n) == [t |-> t, n |-> n]
NoReq == Req("", 0)
Expect(len, re) == [len |-> len, re |-> re]
Msg(t, len, v) == [t |-> t, len |-> len, v |-> v]
NoMsg == Msg("", 0, <<>>)

Zeros4 == <<"0", "0", "0", "0">>
RegexChar(ch) == ch \in {HexChar[i] : i \in 1..16} \cup {"Z"}   \* [A-Z0-9]
Tail4(v) == SubSeq(v, Len(v) - 3, Len(v))

\* responseRegex.exec(queue) finds the pattern in a reply that lies whole in the buffer
Matches(m, re) ==
    CASE re = "Ready" -> m.t = "Ready"
      [] re = "Ver"   -> m.t = "Ver"
      [] re = "CRC"   -> /\ m.t = "CRC"                       \* /CRC: 0000[A-Z0-9]{4}/
                         /\ SubSeq(m.v, 1, 4) = Zeros4
                         /\ \A i \in 5..8 : RegexChar(m.v[i])
      [] re = "CRC0"  -> m.t = "CRC" /\ m.v = Zeros4 \o Zeros4 \* /CRC: 00000000/
      [] re = "ACK"   -> m.t = "ACK"
      [] re = "r"     -> m.t = "r"
      [] OTHER        -> FALSE

Digit(ch) == CHOOSE d \in 0..9 : HexChar[d + 1] = ch
\* parseFloat('X.YY...'), in hundredths
ParseVersion(v) == 100 * Digit(v[1]) + 10 * Digit(v[2]) + Digit(v[3])

RECURSIVE send(_, _, _, _), invoke(_, _, _, _), receive(_, _)
RECURSIVE readyCheck(_, _, _, _), sendFirmwareData(_, _, _), clearUserData(_, _, _)
RECURSIVE sendUserDataClear(_, _, _, _), checkUserDataClear(_, _, _), sendFirmware(_, _, _)
RECURSIVE resetDevice(_, _, _), restartTimer(_, _, _), versionCallback(_, _, _, _)

\* send(buffer, expectedLength, regex, callback)
send(w, buffer, expected, callback) ==
    IF w.c.flashFailed \/ w.c.port = "undefined"
    THEN [w EXCEPT !.o.skipped = IF w.c.flashFailed THEN @ \cup {callback.j} ELSE @]
    ELSE IF w.c.port # "open"
    THEN LET w1 == [clearTimeout(w, "responseTimeout")
                       EXCEPT !.o.otherCallback = @ \/ w.c.completionFunction # callback] IN
         IF w1.c.completionFunction # NoFn
         THEN invoke(w1, w1.c.completionFunction, "closed", NoMsg)
         ELSE w1
    ELSE LET w1 == [w EXCEPT !.c.receiveComplete = FALSE,
                             !.c.responseExpected = expected,
                             !.c.completionFunction = callback,
                             !.c.queue = <<>>,
                             \* port.write(buffer): the device has it
                             !.e.reqs = IF Len(@) < w.e.cap THEN Append(@, buffer)
                                        ELSE Append(Tail(@), buffer),
                             !.o.afterStall = @ \/ callback.j \in w.o.stalled,
                             !.o.discarded = FALSE,
                             !.o.resets = IF buffer.t = "r"
                                          THEN @ \cup {[j |-> callback.j, ph |-> callback.ph,
                                                        rx |-> w.o.lastRx]}
                                          ELSE @]
             w2 == setTimeout(w1, Item("responseTimeout", callback.j, callback.ph, 0))
         IN  [w2 EXCEPT !.c.timedOut = FALSE]

\* the callback of port.write
writeCallback(w, err) == IF err THEN clearTimeout(w, "responseTimeout") ELSE w

\* the callback of responseTimeout
responseTimeoutFired(w) ==
    invoke([w EXCEPT !.c.timedOut = TRUE], w.c.completionFunction, "timeout", NoMsg)

RECURSIVE QueueLen(_)
QueueLen(q) == IF q = <<>> THEN 0 ELSE Head(q).len + QueueLen(Tail(q))

\* data is ignored on a closed port only
ignoresDataWhenClosed(w) == w.c.port # "open"

\* receive: no response is awaited, the data is ignored
ignoresData(w) == w.c.receiveComplete \/ w.c.timedOut \/ w.c.port # "open"

\* the response timeout is left to run when the response is complete
keepResponseTimeout(w) == w

\* receive: the response is complete, its timeout is cancelled
stopResponseTimeout(w) == clearTimeout(w, "responseTimeout")

\* receive(data), for the bytes of one device reply m: the buffer is examined at the
\* byte that fills it; the bytes after that byte are received after the callback ran
receive(w, m) ==
    IF w.c.port = "undefined" THEN w
    ELSE IF ignoresData(w)
    THEN [w EXCEPT !.o.discarded = @ \/ w.c.port = "open"]
    ELSE LET need == w.c.responseExpected.len - QueueLen(w.c.queue) IN
         IF m.len < need
         THEN [w EXCEPT !.c.queue = Append(@, m)]
         ELSE LET whole == IF m.len = need THEN {m} ELSE {}
                  inbuf == {w.c.queue[i] : i \in 1..Len(w.c.queue)} \cup whole
                  hits == {x \in inbuf : Matches(x, w.c.responseExpected.re)}
                  w1 == [stopResponseTimeout(w)
                            EXCEPT !.c.timedOut = FALSE, !.c.receiveComplete = TRUE,
                                   !.c.queue = Append(@, [m EXCEPT !.len = need])]
                  w2 == IF hits # {}
                        THEN LET r == CHOOSE x \in hits : TRUE IN
                             invoke([w1 EXCEPT !.o.lastRx = IF r.t = "CRC" THEN Tail4(r.v) ELSE @],
                                    w1.c.completionFunction, "", r)
                        ELSE invoke(w1, w1.c.completionFunction, "unexpected", NoMsg)
              IN  IF m.len > need
                  THEN receive(w2, Msg("tail", m.len - need, <<>>))
                  ELSE w2

----------------------------------------------------------------------------
(* communication.js: the XMODEM flasher *)

\* requestBootloaderVersion
requestBootloaderVersion(w, j) ==
    send(w, Req("i", 0), Expect(54, "Ver"), Item("versionCb", j, "main", 0))

\* resetFailure
resetFailure(w, j) == stopCommunicating(report(setBarAborted(w), j, "aborted"))

\* displayCompleteMessage (app.js), the success callback of the requested flash
displayCompleteMessage(w, j) == report(setBarCompleted(w, j), j, "completed")

\* the success callback of the bootloader update (app.js, serialWrite of the updater)
bootloaderUpdated(w, j) ==
    setBarBootloaderUpdateCompleted([w EXCEPT !.a.displayingBootloaderSuccess = TRUE], j)

\* restartTimer: ph names the success callback
restartTimer(w, j, ph) ==
    IF w.c.resetTime < RESET_TIMEOUT_LENGTH
    THEN defer(w, Item("restartTimer", j, ph, 0))
    ELSE IF ph = "upd" THEN bootloaderUpdated(w, j) ELSE displayCompleteMessage(w, j)

restartTimerFired(w, it) ==
    restartTimer([w EXCEPT !.c.resetTime = @ + RESET_CHECK_TIMEOUT_LENGTH], it.j, it.ph)

\* resetDevice
resetDevice(w, j, ph) ==
    setTimeout(send(w, Req("r", 0), Expect(1, "r"), Item("resetCb", j, ph, 0)),
               Item("flashResetTimeout", j, ph, 0))

resetCallback(w, j, ph, err) ==
    LET w1 == closePort(clearTimeout(clearTimeout(w, "flashResetTimeout"), "responseTimeout")) IN
    IF err # "" THEN resetFailure(w1, j)
    ELSE restartTimer([w1 EXCEPT !.c.resetTime = 0,
                                 !.o.resetAcked = @ \cup {[j |-> j, ph |-> ph]}], j, ph)

\* crcCheck: requestCRC and its callback
crcCheck(w, j, ph) ==
    send(w, Req(IF Destructive(w, j, ph) THEN "v" ELSE "c", 0), Expect(18, "CRC"),
         Item("crcCb", j, ph, 0))

\* crcCheck with the comparison left out
isCRCCorrectAlways(receivedCRC, expectedCRC) == TRUE

\* receivedCRC === expectedCRC
isCRCCorrect(receivedCRC, expectedCRC) == receivedCRC = expectedCRC

crcCallback(w, j, ph, err, response) ==
    IF err # "" THEN stopCommunicating(setBarAborted(displayError(w, j)))
    ELSE LET receivedCRC == Tail4(response.v)
             expectedCRC == ExpectedCRC(w, j, ph)
             w1 == [w EXCEPT !.o.crcChecked = @ \cup {[j |-> j, ph |-> ph, rx |-> receivedCRC]}]
         IN  IF expectedCRC # NoCRC
             THEN IF isCRCCorrect(receivedCRC, expectedCRC)
                  THEN resetDevice(w1, j, ph)
                  ELSE stopCommunicating(setBarAborted(displayError(w1, j)))
             ELSE resetDevice(w1, j, ph)

\* confirmEOF
confirmEOF(w, j, ph) == send(w, Req("EOF", 0), Expect(1, "ACK"), Item("eofCb", j, ph, 0))

eofCallback(w, j, ph, err) ==
    IF err # "" THEN stopCommunicating(displayError(w, j))
    ELSE crcCheck(clearTimeout(w, "responseTimeout"), j, ph)

\* the block after numberOfRepeats sends, without going back to lower
nextBlockNoWrap(lower, upper, numberOfRepeats) == lower + numberOfRepeats

\* the current block to be sent
nextBlock(lower, upper, numberOfRepeats) ==
    lower + (numberOfRepeats % (upper - lower + 1))

\* sendFirmwareData
\* the limit of repeats, passed by one before it counts
tooManyRepeatsOffByOne(numberOfRepeats) == numberOfRepeats > MAX_REPEATS

\* a single block has been repeated too many times
tooManyRepeats(numberOfRepeats) == numberOfRepeats >= MAX_REPEATS

sendFirmwareData(w, j, ph) ==
    LET bn == nextBlock(w.c.lower, w.c.upper, w.c.numberOfRepeats)
        w1 == [w EXCEPT !.c.blockNumber = bn] IN
    IF bn >= w.c.splitBuffers THEN confirmEOF(w1, j, ph)
    ELSE IF tooManyRepeats(w.c.numberOfRepeats)
    THEN stopCommunicating([clearTimeout(displayError(w1, j), "responseTimeout")
                               EXCEPT !.c.timedOut = FALSE, !.c.flashFailed = TRUE,
                                      !.o.stalled = @ \cup {j}])
    ELSE send([w1 EXCEPT !.c.numberOfRepeats = @ + 1, !.c.timedOut = FALSE,
                         !.o.image = IF ph = "main" THEN @ \cup {j} ELSE @,
                         !.o.sent = @ \cup {bn + 1}],
              Req("block", bn + 1), Expect(1, "ACK"), Item("blockCb", j, ph, 0))

\* the upper block after a timeout, without the limit of the last block
upperAfterTimeoutUnclamped(upper, blockNumber, length) == Max(upper, blockNumber + 1)

\* upper after a timeout of blockNumber
upperAfterTimeout(upper, blockNumber, length) ==
    Min(Max(upper, blockNumber + 1), length - 1)

\* lower after an acknowledgement, one block too far
lowerAfterAckSkipping(blockNumber) == blockNumber + 2

\* lower after an acknowledgement of blockNumber
lowerAfterAck(blockNumber) == blockNumber + 1

blockCallback(w, j, ph, err) ==
    IF w.c.flashFailed THEN w
    ELSE LET w1 == IF w.c.timedOut
                   THEN [w EXCEPT !.c.upper = upperAfterTimeout(@, w.c.blockNumber,
                                                                w.c.splitBuffers)]
                   ELSE IF err # "" THEN w     \* port.flush()
                   ELSE [w EXCEPT !.c.numberOfRepeats = 0,
                                  !.c.lower = lowerAfterAck(w.c.blockNumber),
                                  !.c.upper = lowerAfterAck(w.c.blockNumber)]
             w2 == sendFirmwareData(w1, j, ph)
         IN  IF /\ w.c.timedOut
                /\ w2.c.numberOfRepeats > w1.c.numberOfRepeats
                /\ w.o.afterTimeout.sent = 0        \* the first timeout of a block
             THEN [w2 EXCEPT !.o.afterTimeout = [timedOut |-> w.c.blockNumber + 1,
                                                 sent |-> w2.c.blockNumber + 1]]
             ELSE w2

\* readyCheck: n = 0 is the 't' of startUserDataClear, n = 1 the 'd' / 'u' of sendFirmware
\* the test of the budget that lets one more ready check through
readyChecksExhaustedLate(readyCheckCount) == readyCheckCount > MAX_READY_CHECK_COUNT

readyChecksExhausted(readyCheckCount) == readyCheckCount >= MAX_READY_CHECK_COUNT

readyCheck(w, j, ph, n) ==
    IF readyChecksExhausted(w.c.readyCheckCount)
    THEN stopCommunicating(displayError(clearTimeout(w, "readyTimeout"), j))
    ELSE send([w EXCEPT !.c.readyCheckCount = @ + 1],
              Req(IF n = 0 THEN "t" ELSE IF Destructive(w, j, ph) THEN "d" ELSE "u", 0),
              Expect(11, "Ready"), Item("readyCb", j, ph, n))

readyCallback(w, j, ph, n, err) ==
    IF err # "" THEN setTimeout(w, Item("readyTimeout", j, ph, n))
    ELSE LET w1 == [w EXCEPT !.c.numberOfRepeats = 0, !.c.blockNumber = 0] IN
         IF n = 0 THEN sendUserDataClear(w1, j, ph, 0) ELSE sendFirmwareData(w1, j, ph)

\* sendFirmware
sendFirmware(w, j, ph) ==
    readyCheck([w EXCEPT !.c.flashFailed = FALSE,
                         !.c.splitBuffers = NumBlocks(IF ph = "upd" THEN ImageLen
                                                                     ELSE w.o.jobs[j].size),
                         !.c.numberOfRepeats = 0, !.c.lower = 0, !.c.upper = 0,
                         !.c.blockNumber = 0, !.c.readyCheckCount = 0,
                         !.o.sent = {}], j, ph, 1)

----------------------------------------------------------------------------
(* The clear-user-data sub-protocol (communication.js) and its driver (app.js) *)

\* sendUserDataClear
sendUserDataClear(w, j, ph, n) ==
    send(w, Req("clear", n + 1), Expect(1, "ACK"), Item("clearBlockCb", j, ph, n))

clearBlockCallback(w, j, ph, n, err) ==
    IF err # "" THEN clearUserData(w, j, ph)               \* failureCallback()
    ELSE IF n + 1 >= USER_DATA_BLOCKS
    THEN send(w, Req("EOF", 0), Expect(1, "ACK"), Item("clearEOFCb", j, ph, 0))
    ELSE sendUserDataClear(w, j, ph, n + 1)

\* checkUserDataClear
checkUserDataClear(w, j, ph) ==
    IF w.c.userDataCheckCount > MAX_USER_DATA_CHECK_COUNT
    THEN stopCommunicating(displayError(w, j))
    ELSE send([w EXCEPT !.c.userDataCheckCount = @ + 1],
              Req("n", 0), Expect(18, "CRC0"), Item("clearCheckCb", j, ph, 0))

clearEOFCallback(w, j, ph, err) ==
    IF err # "" THEN stopCommunicating(displayError(w, j))
    ELSE checkUserDataClear([clearTimeout(w, "responseTimeout")
                                EXCEPT !.c.userDataCheckCount = 0], j, ph)

\* the firmware is sent whatever the poll answered
clearCheckCallbackIgnoresError(w, j, ph, err) ==
    sendFirmware([w EXCEPT !.a.clearUserDataAttempts = 0], j, ph)

clearCheckCallback(w, j, ph, err) ==
    IF err # "" THEN setTimeout(w, Item("readyTimeout", j, ph, 2))
    ELSE sendFirmware([w EXCEPT !.a.clearUserDataAttempts = 0], j, ph)

\* startUserDataClear
startUserDataClear(w, j, ph) == readyCheck([w EXCEPT !.c.readyCheckCount = 0], j, ph, 0)

\* clearUserData (app.js)
clearUserData(w, j, ph) ==
    IF w.a.clearUserDataAttempts < MAX_CLEAR_USER_DATA_ATTEMPTS
    THEN startUserDataClear([w EXCEPT !.a.clearUserDataAttempts = @ + 1], j, ph)
    ELSE stopCommunicating(displayError(w, j))

\* the callback of readyTimeout
readyTimeoutFired(w, it) ==
    IF it.n = 2 THEN checkUserDataClear(w, it.j, it.ph)
    ELSE readyCheck(w, it.j, it.ph, it.n)

----------------------------------------------------------------------------
(* app.js: opening the port, the bootloader version gate, serialWrite *)

\* serialWrite: the port error callback now fails the flash; fs.readFile is awaited
serialWrite(w, j, ph) ==
    defer([w EXCEPT !.c.portErrorCallback = Item("failCb", j, ph, 0)],
          Item("readFile", j, ph, 0))

readFileDone(w, it, err) ==
    IF err THEN stopCommunicating(displayError(w, it.j))
    ELSE IF w.a.clearUserDataEnabled THEN clearUserData(w, it.j, it.ph)
    ELSE sendFirmware(w, it.j, it.ph)

\* openPort: new SerialPort opens by itself; the callbacks wait for its events
openPort(w, openCallback, errorCallback) ==
    [w EXCEPT !.c.queue = <<>>, !.c.port = "opening",
              !.c.openCallback = openCallback,
              !.c.portErrorCallback = errorCallback]

\* the branch taken when no port name is found or the port fails to open:
\* k names the timer that retries
retryOrGiveUp(w, j, k) ==
    IF w.a.portOpenReattempts <= MAX_PORT_OPEN_ATTEMPTS
    THEN defer(w, Item(k, j, "main", 0))
    ELSE [stopCommunicating(displayError(w, j)) EXCEPT !.a.portOpenReattempts = 0]

\* openPortCheckBootloader: awaits the port name
openPortCheckBootloader(w, j) == defer(w, Item("opcbList", j, "main", 0))

opcbListDone(w, it, found) ==
    IF ~found THEN retryOrGiveUp(w, it.j, "opcbRetry")
    ELSE defer(w, Item("opcbOpen", it.j, "main", 0))       \* setTimeout(..., 1000)

opcbRetryFired(w, it) ==
    openPortCheckBootloader([w EXCEPT !.a.portOpenReattempts = @ + 1], it.j)

opcbOpenFired(w, it) ==
    openPort(w, Item("opcbOpened", it.j, "main", 0), Item("opcbPortError", it.j, "main", 0))

\* openPortAndSerialWrite: after a bootloader update
openPortAndSerialWrite(w, j) == defer(w, Item("opswList", j, "main", 0))

opswListDone(w, it, found) ==
    IF ~found THEN retryOrGiveUp(w, it.j, "opswRetry")
    ELSE openPort(w, Item("opswOpened", it.j, "main", 0), Item("opswPortError", it.j, "main", 0))

opswRetryFired(w, it) ==
    openPortAndSerialWrite([w EXCEPT !.a.portOpenReattempts = @ + 1], it.j)

\* checkBootloaderThenSerialWrite
checkBootloaderThenSerialWrite(w, j) == requestBootloaderVersion(w, j)

\* the callback going on to the requested image without the update
versionCallbackSkipsUpdate(w, j, err, response) ==
    IF err # ""
    THEN IF w.a.bootloaderVersionReattempts < MAX_BOOTLOADER_VERSION_ATTEMPTS
         THEN defer(w, Item("versionRetry", j, "main", 0))
         ELSE stopCommunicating(displayError(w, j))
    ELSE LET bootloaderVersion == ParseVersion(response.v) IN
         IF bootloaderVersion = 101 \/ bootloaderVersion = 100
         THEN IF w.e.answer
              THEN defer([w EXCEPT !.o.update[j] = "confirmed"], Item("writeDelay", j, "main", 0))
              ELSE report(setBarAborted(stopCommunicating([w EXCEPT !.o.update[j] = "declined"])),
                          j, "aborted")
         ELSE defer(w, Item("writeDelay", j, "main", 0))

versionCallback(w, j, err, response) ==
    IF err # ""
    THEN IF w.a.bootloaderVersionReattempts < MAX_BOOTLOADER_VERSION_ATTEMPTS
         THEN defer(w, Item("versionRetry", j, "main", 0))
         ELSE stopCommunicating(displayError(w, j))
    ELSE LET bootloaderVersion == ParseVersion(response.v) IN
         IF bootloaderVersion = 101 \/ bootloaderVersion = 100
         THEN IF w.e.answer                                  \* buttonIndex === 0
              THEN defer([w EXCEPT !.a.bootloaderUpdateCompleteCallback = j,
                                   !.o.update[j] = "confirmed"],
                         Item("writeDelay", j, "upd", 0))
              ELSE report(setBarAborted(stopCommunicating([w EXCEPT !.o.update[j] = "declined"])),
                          j, "aborted")
         ELSE defer(w, Item("writeDelay", j, "main", 0))

versionRetryFired(w, it) ==
    checkBootloaderThenSerialWrite([w EXCEPT !.a.bootloaderVersionReattempts = @ + 1], it.j)

\* ipcRenderer.on('bootloader-update-success')
bootloaderUpdateSuccess(w) ==
    IF w.a.displayingBootloaderSuccess
    THEN openPortAndSerialWrite([w EXCEPT !.a.displayingBootloaderSuccess = FALSE,
                                          !.a.portOpenReattempts = 0],
                                w.a.bootloaderUpdateCompleteCallback)
    ELSE w

\* the callback passed to openPort or setPortErrorCallback
portErrorCallbackBody(w, fn) ==
    CASE fn.k = "opcbPortError" -> retryOrGiveUp(w, fn.j, "opcbRetry")
      [] fn.k = "opswPortError" -> retryOrGiveUp(w, fn.j, "opswRetry")
      [] fn.k = "failCb"        -> stopCommunicating(failFlash(w, fn.j))
      [] OTHER                  -> w

\* the callback passed to openPort for the 'open' event
openCallbackBody(w, fn) ==
    CASE fn.k = "opcbOpened" ->
             checkBootloaderThenSerialWrite([w EXCEPT !.a.bootloaderVersionReattempts = 0], fn.j)
      [] fn.k = "opswOpened" -> serialWrite(w, fn.j, "main")
      [] OTHER -> w

\* completionFunction(err, response)
invoke(w, fn, err, response) ==
    CASE fn.k = "versionCb"    -> versionCallback(w, fn.j, err, response)
      [] fn.k = "readyCb"      -> readyCallback(w, fn.j, fn.ph, fn.n, err)
      [] fn.k = "clearBlockCb" -> clearBlockCallback(w, fn.j, fn.ph, fn.n, err)
      [] fn.k = "clearEOFCb"   -> clearEOFCallback(w, fn.j, fn.ph, err)
      [] fn.k = "clearCheckCb" -> clearCheckCallback(w, fn.j, fn.ph, err)
      [] fn.k = "blockCb"      -> blockCallback(w, fn.j, fn.ph, err)
      [] fn.k = "eofCb"        -> eofCallback(w, fn.j, fn.ph, err)
      [] fn.k = "crcCb"        -> crcCallback(w, fn.j, fn.ph, err, response)
      [] fn.k = "resetCb"      -> resetCallback(w, fn.j, fn.ph, err)
      [] OTHER                 -> w

----------------------------------------------------------------------------
(* communication.js: callWithRetry and the USB-HID flasher *)

\* one call of an audiomoth-hid function: it throws, or calls back with null,
\* undefined or a value
Outcome(t, v) == [t |-> t, v |-> v]
NoResult == <<0, 0, 0, 0, 0>>
Thrown == Outcome("throw", NoResult)

\* callWithRetry(funcSync, argument, milliseconds, repeats): the first `fails`
\* attempts throw, the next one (if any is left) calls back with `last`
RECURSIVE retryLoop(_, _, _, _)
retryLoop(attempt, repeats, fails, last) ==
    IF attempt < repeats
    THEN IF attempt < fails
         THEN retryLoop(attempt + 1, repeats, fails, last)    \* catch: delay, attempt += 1
         ELSE last                                            \* result = ...; break
    ELSE Outcome("undefined", NoResult)

\* callWithRetry without the test for null
callWithRetryReturnsNull(fails, last, repeats) ==
    LET result == retryLoop(0, repeats, fails, last) IN
    IF result.t = "undefined" THEN Thrown
    ELSE result

callWithRetry(fails, last, repeats) ==
    LET result == retryLoop(0, repeats, fails, last) IN
    IF result.t = "undefined" THEN Thrown
    ELSE IF result.t = "null" THEN Thrown
    ELSE result

\* the value the file's bytes give in the updateCRC loop (computed when no CRC is known)
imageCRC == 39321

\* expectedCRC once the packets are sent
ExpectedHID(w, j) ==
    IF w.o.jobs[j].crc = NoCRC THEN Hex4(imageCRC) ELSE w.o.jobs[j].crc

\* the inner loop of the packet loop: bytes put in the buffers of one batch, for
\* firmwareData of `length` bytes
RECURSIVE batchBytes(_, _, _, _)
batchBytes(length, i, numberOfBuffers, totalNumberOfBytes) ==
    IF numberOfBuffers < NUMBER_OF_BUFFER_TO_SEND
    THEN LET offset == i + totalNumberOfBytes
             numberOfBytes == Min(MAXIMUM_FIRMWARE_PACKET_SIZE, length - offset) IN
         IF numberOfBytes = 0 THEN totalNumberOfBytes
         ELSE batchBytes(length, i, numberOfBuffers + 1, totalNumberOfBytes + numberOfBytes)
    ELSE totalNumberOfBytes

HidItem(j, pc, n) == Item("hid", j, pc, n)

\* USBHIDFlash with the comparison left out
crcDiffersNever(actualCRC, expectedCRC) == FALSE

\* actualCRC !== expectedCRC
crcDiffers(actualCRC, expectedCRC) == actualCRC # expectedCRC

\* a HID command is handed to callWithRetry; remember which commands went out
hidCall(w, j, pc, n) ==
    defer([w EXCEPT !.o.hidSent[j] = @ \cup (IF pc \in {"clear", "flash"} THEN {pc} ELSE {}),
                    !.o.hidPollAtSend[j] = IF pc \in {"clear", "flash"}
                                           THEN w.o.hidPoll[j] ELSE @],
          HidItem(j, pc, n))

\* failureCallback of USBHIDFlash (app.js): the catch block
hidFailure(w, j) == stopCommunicating(displayError(setBarAborted(w), j))

\* the packet loop, entered at offset i
hidPackets(w, j, i) ==
    IF i < w.o.jobs[j].size THEN hidCall(w, j, "packets", i)
    ELSE hidCall(w, j, "calc", 0)

\* the CRC poll loop without its limit
hidPollUnbounded(w, j, retries) == defer(w, HidItem(j, "crcDelay", retries))

\* the CRC poll loop, entered with `retries`
hidPoll(w, j, retries) ==
    IF retries < MAXIMUM_RETRIES THEN defer(w, HidItem(j, "crcDelay", retries))
    ELSE hidFailure(w, j)                                    \* retries === MAXIMUM_RETRIES

\* USBHIDFlash: up to the first await
USBHIDFlash(w, j) == hidCall(w, j, "init", 0)

\* the response to INIT_SRAM is judged by its echo only
initRejectedEchoOnly(result) == result[2] # AM_BOOTLOADER_INITIALISE_SRAM

\* the response to INIT_SRAM is not the echo with status 0x01
initRejected(result) == result[2] # AM_BOOTLOADER_INITIALISE_SRAM \/ result[3] # 1

\* USBHIDFlash resumes after an await; r is what callWithRetry gave
hidResume(w, it, r) ==
    LET j == it.j
        result == r.v IN
    CASE it.ph = "pktDelay" -> hidPackets(w, j, it.n)
      [] it.ph = "crcDelay" -> hidCall(w, j, "getcrc", it.n)
      [] r.t = "throw" -> hidFailure(w, j)
      [] it.ph = "init" ->
            IF initRejected(result)
            THEN hidFailure(w, j)
            ELSE hidPackets(w, j, 0)
      [] it.ph = "packets" ->
            IF result[2] # AM_BOOTLOADER_SET_SRAM_FIRMWARE_PACKET
            THEN hidFailure(w, j)
            ELSE defer(w, HidItem(j, "pktDelay", it.n + batchBytes(w.o.jobs[j].size, it.n, 0, 0)))
      [] it.ph = "calc" ->
            IF result[2] # AM_BOOTLOADER_CALC_SRAM_FIRMWARE_CRC
            THEN hidFailure(w, j)
            ELSE hidPoll(w, j, 0)
      [] it.ph = "getcrc" ->
            LET w1 == [w EXCEPT !.o.hidPoll[j] = result] IN
            IF result[2] # AM_BOOTLOADER_GET_FIRMWARE_CRC THEN hidFailure(w1, j)
            ELSE IF result[3] # 1 THEN hidPoll(w1, j, it.n + 1)
            ELSE LET actualCRC == Hex4(result[4] + result[5] * 256) IN
                 IF crcDiffers(actualCRC, ExpectedHID(w, j)) THEN hidFailure(w1, j)
                 ELSE IF w.o.jobs[j].clear THEN hidCall(w1, j, "clear", 0)
                 ELSE hidCall(w1, j, "flash", 0)
      [] it.ph = "clear" ->
            IF result[2] # AM_BOOTLOADER_CLEAR_USER_DATA \/ result[3] # 1
            THEN hidFailure(w, j)
            ELSE hidCall(w, j, "flash", 0)
      [] it.ph = "flash" ->
            IF result[2] # AM_BOOTLOADER_FLASH_FIRMWARE \/ result[3] # 1
            THEN hidFailure(w, j)
            ELSE restartTimer([w EXCEPT !.c.resetTime = 0], j, "hid")
      [] OTHER -> w

----------------------------------------------------------------------------
(* app.js: the status probe and the settings *)

\* updateFlashButtonState: a firmware is downloaded and a local file is selected
updateFlashButtonState(w) ==
    [w EXCEPT !.a.flashButtonDownloadedDisabled = ~w.a.inFlashableState \/ w.c.communicating,
              !.a.flashButtonLocalDisabled = ~w.a.inFlashableState \/ w.c.communicating]

communicateDeviceStatus(w, newStatus) == [w EXCEPT !.a.deviceStatus = newStatus]

NoStatus == [def |-> FALSE, supportsUSBHIDFlash |-> FALSE, supportsBootloaderSwitch |-> FALSE]

\* updateStatusUI
updateStatusUI(w) ==
    IF w.a.inSerialBootloader
    THEN communicateDeviceStatus(updateFlashButtonState(w), STATUS_SERIAL_BOOTLOADER)
    ELSE IF ~w.a.statusResult.def
    THEN communicateDeviceStatus(
             updateFlashButtonState([w EXCEPT !.a.inFlashableState = FALSE]),
             STATUS_NO_AUDIOMOTH)
    ELSE LET w1 == [w EXCEPT !.a.supportsUSBHIDFlash = w.a.statusResult.supportsUSBHIDFlash,
                             !.a.supportsBootloaderSwitching =
                                 w.a.statusResult.supportsBootloaderSwitch]
             gate(x) == IF ~x.c.communicating THEN updateFlashButtonState(x) ELSE x
         IN  IF w1.a.supportsBootloaderSwitching
             THEN LET st == IF /\ w1.a.overwriteBootloaderOptionEnabled
                               /\ w1.a.destructiveCheckbox
                               /\ w1.a.currentTab = TAB_LOCAL
                            THEN STATUS_AUDIOMOTH_AUTO
                            ELSE IF w1.a.supportsUSBHIDFlash /\ w1.a.useUSBHIDFlashing
                            THEN STATUS_AUDIOMOTH_USB
                            ELSE STATUS_AUDIOMOTH_AUTO
                  IN  gate([communicateDeviceStatus(w1, st) EXCEPT !.a.inFlashableState = TRUE])
             ELSE gate(communicateDeviceStatus([w1 EXCEPT !.a.inFlashableState = FALSE],
                                               STATUS_AUDIOMOTH_MANUAL))

\* a pending await of the status probe n
ProbeItem(pc, u, s, n) == [Item("probe", 0, pc, n) EXCEPT !.u = u, !.s = s]

\* a call of getStatus that is not in flight
freshProbe(w) ==
    CHOOSE n \in 0..(MaxProbes + MaxOverlap) : \A p \in w.l : p.k = "probe" => p.n # n

\* getStatus (app.js), up to its first await
getStatus(w) ==
    defer([w EXCEPT !.a.inFlashableState = FALSE, !.a.inSerialBootloader = FALSE],
          ProbeItem("list", FALSE, FALSE, freshProbe(w)))

\* getStatus (app.js) and getStatus (communication.js) resume after an await:
\* found answers isInBootloader, r is what callWithRetry gave
probeResume(w, it, found, r) ==
    LET none == updateStatusUI([w EXCEPT !.a.statusResult = NoStatus])   \* return null
        truthy == r.v[1] = 1 IN
    CASE it.ph = "list" ->
            IF found
            THEN updateStatusUI([w EXCEPT !.a.inFlashableState = TRUE,
                                          !.a.inSerialBootloader = TRUE])
            ELSE defer(w, ProbeItem("usbhid", FALSE, FALSE, it.n))
      [] r.t = "throw" -> none
      [] it.ph = "usbhid" -> defer(w, ProbeItem("switch", truthy, FALSE, it.n))
      [] it.ph = "switch" -> defer(w, ProbeItem("version", it.u, truthy, it.n))
      [] it.ph = "version" -> defer(w, ProbeItem("description", it.u, it.s, it.n))
      [] it.ph = "description" ->
            updateStatusUI([w EXCEPT !.a.statusResult =
                               [def |-> TRUE, supportsUSBHIDFlash |-> it.u,
                                supportsBootloaderSwitch |-> it.s]])
      [] OTHER -> w

\* updateStatusText: one tick of the status loop
updateStatusText(w) ==
    IF ~w.c.communicating THEN getStatus(w)
    ELSE updateFlashButtonState([w EXCEPT !.a.inFlashableState = FALSE])

\* the handler without `destructiveCheckbox.checked = false`
toggleBootloaderOverwriteKeepsBox(w) ==
    updateStatusUI([w EXCEPT !.a.overwriteBootloaderOptionEnabled = ~@])

\* ipcRenderer.on('toggle-bootloader-overwrite')
toggleBootloaderOverwrite(w) ==
    LET on == ~w.a.overwriteBootloaderOptionEnabled IN
    updateStatusUI([w EXCEPT !.a.overwriteBootloaderOptionEnabled = on,
                             !.a.destructiveCheckbox = IF ~on THEN FALSE ELSE @])

\* ipcRenderer.on('toggle-clear-user-data')
toggleClearUserData(w) == updateStatusUI([w EXCEPT !.a.clearUserDataEnabled = ~@])

\* ipcRenderer.on('toggle-usb-hid-flashing')
toggleUSBHIDFlashing(w) == updateStatusUI([w EXCEPT !.a.useUSBHIDFlashing = ~@])

\* destructiveCheckbox 'change': the box has just been flipped by the user
destructiveCheckboxChange(w) ==
    LET w1 == updateStatusUI([w EXCEPT !.a.destructiveCheckbox = ~@]) IN
    IF ~w1.a.destructiveCheckbox THEN w1
    ELSE IF ~w.e.answer THEN [w1 EXCEPT !.a.destructiveCheckbox = FALSE]   \* buttonIndex !== 0
    ELSE w1

\* downloadTabLink / localTabLink 'click'
tabLinkClick(w, tab) == updateStatusUI([w EXCEPT !.a.currentTab = tab])

----------------------------------------------------------------------------
(* communication.js: switching the device to the bootloader *)

\* the callback flashButtonOnClick passes to requestBootloader
switchCallback(w, j, bootloaderErr) ==
    LET w1 == [w EXCEPT !.o.switchResolved[j] = Min(@ + 1, 2)] IN
    IF bootloaderErr
    THEN stopCommunicating(displayError(setBarAborted(w1), j))
    ELSE defer(w1, Item("fbList2", j, "main", 0))          \* await comms.isInBootloader()

\* checkBootloaderSwitch, up to its await
checkBootloaderSwitch(w, j) == defer(w, Item("cbsList", j, "main", 0))

cbsListDone(w, it, deviceFound) ==
    IF deviceFound
    THEN switchCallback(clearTimeout(w, "bootloaderCheckTimeout"), it.j, FALSE)
    ELSE IF ~w.c.bootloaderCheckTimedOut
    THEN defer(w, Item("cbsTimer", it.j, "main", 0))
    ELSE w

cbsTimerFired(w, it) == checkBootloaderSwitch(w, it.j)

\* the callback of bootloaderCheckTimeout
bootloaderCheckTimeoutFired(w, it) ==
    switchCallback([w EXCEPT !.c.bootloaderCheckTimedOut = TRUE,
                             !.o.switchTimedOut[it.j] = TRUE], it.j, TRUE)

\* requestBootloader, up to its await
requestBootloader(w, j) == defer(w, Item("rbSwitch", j, "main", 0))

\* requestBootloader resumes: r is what callWithRetry(switchToBootloader) gave
rbSwitchDone(w, it, r) ==
    IF r.t = "throw" THEN switchCallback(w, it.j, TRUE)
    ELSE IF r.v[1] = 1                                       \* switchedToBootloader
    THEN setTimeout(checkBootloaderSwitch([w EXCEPT !.c.bootloaderCheckTimedOut = FALSE,
                                                    !.e.switching = TRUE,
                                                    !.o.switchAccepted[it.j] = TRUE], it.j),
                    Item("bootloaderCheckTimeout", it.j, "main", 0))
    ELSE switchCallback(w, it.j, TRUE)

\* the second isInBootloader of the callback and the delay before the port is opened
fbList2Done(w, it, serialBootloader) ==
    IF serialBootloader THEN defer(w, Item("fbDelay", it.j, "main", 0))
    ELSE stopCommunicating(displayError(setBarAborted(w), it.j))

fbDelayFired(w, it) ==
    openPortCheckBootloader([w EXCEPT !.o.stepAfterTimeout =
                                @ \/ w.o.switchTimedOut[it.j]], it.j)

----------------------------------------------------------------------------
(* app.js: the flash buttons *)

DownloadedFile == [release |-> TRUE, bin |-> TRUE, size |-> ImageLen]
LocalFiles == {[release |-> TRUE, bin |-> TRUE, size |-> ImageLen],
               [release |-> FALSE, bin |-> TRUE, size |-> ImageLen],
               [release |-> FALSE, bin |-> FALSE, size |-> ImageLen]}

\* file sizes on both sides of every limit
FileSizes == {ImageLen, MAX_USBHID, MAX_USBHID + 1, MAX_FILE_SIZE, MAX_FILE_SIZE + 1,
              MAX_FILE_SIZE_DESTRUCTIVE, MAX_FILE_SIZE_DESTRUCTIVE + 1}

\* the files of any name and size that can be selected or have been downloaded
AnyFiles == [release : BOOLEAN, bin : BOOLEAN, size : FileSizes]

\* a fileRegex that finds nothing
regexResultNull(file) == FALSE

\* fileRegex.exec(path.basename(firmwarePath.toLowerCase()))
regexResult(file) == file.release

\* flashButtonOnClick(firmwarePath, destructive, version, expectedCRC), up to its await:
\* file.release says whether the name is that of an official release,
\* file.bin whether it passes /^.+\.bin/
flashButtonOnClick(w, file, destructive, expectedCRC) ==
    IF w.c.communicating THEN w
    ELSE LET j == w.o.nJobs + 1
             overwriteBootloaderEnabled ==
                 w.a.overwriteBootloaderOptionEnabled /\ w.a.destructiveCheckbox
             w0 == [w EXCEPT !.o.nJobs = j,
                             !.o.jobs[j] = [destructive |-> destructive, crc |-> expectedCRC,
                                            clear |-> w.a.clearUserDataEnabled,
                                            preferUSBHID |-> w.a.useUSBHIDFlashing,
                                            usbhid |-> w.a.supportsUSBHIDFlash,
                                            status |-> w.a.deviceStatus,
                                            size |-> file.size,
                                            refusal |-> IF /\ destructive
                                                           /\ file.release \/ ~w.e.answer
                                                        THEN "refused" ELSE "none"]]
             w1 == updateFlashButtonState([startCommunicating(w0)
                                              EXCEPT !.a.inFlashableState = FALSE])
             refused == report(stopCommunicating(setBarAborted(w1)), j, "aborted")
             w2 == startBar(w1)
             serial == defer([w2 EXCEPT !.a.portOpenReattempts = 0,
                                        !.o.flasher[j] = "serial"],
                             Item("fbList", j, "main", 0))
         IN  IF destructive /\ regexResult(file) THEN refused
             ELSE IF destructive /\ ~w.e.answer THEN refused       \* buttonIndex !== 0
             ELSE IF ~w.a.useUSBHIDFlashing THEN serial
             ELSE IF ~w.a.supportsUSBHIDFlash THEN serial
             ELSE IF overwriteBootloaderEnabled THEN serial
             ELSE IF w.a.deviceStatus = STATUS_SERIAL_BOOTLOADER THEN serial
             ELSE IF ~file.bin
             THEN stopCommunicating(displayError(setBarAborted(w2), j))
             ELSE USBHIDFlash([w2 EXCEPT !.o.flasher[j] = "hid"], j)

\* the first isInBootloader of flashButtonOnClick
fbListDone(w, it, serialBootloader) ==
    IF serialBootloader THEN openPortCheckBootloader(w, it.j)
    ELSE IF w.a.supportsBootloaderSwitching THEN requestBootloader(w, it.j)
    ELSE w

\* flashButtonDownloaded 'click'
flashButtonDownloadedClick(w, expectedCRC) ==
    flashButtonOnClick(w, DownloadedFile, FALSE, expectedCRC)

\* the same handler when the release that was downloaded has `size` bytes
flashButtonDownloadedClickOf(w, size, expectedCRC) ==
    flashButtonOnClick(w, [DownloadedFile EXCEPT !.size = size], FALSE, expectedCRC)

\* flashButtonLocal 'click': the selected file exists
flashButtonLocalClick(w, file) ==
    LET maxSize == IF w.a.destructiveCheckbox THEN MAX_FILE_SIZE_DESTRUCTIVE ELSE MAX_FILE_SIZE IN
    IF file.size > maxSize THEN displayError(w, 0)
    ELSE flashButtonOnClick(w, file, w.a.destructiveCheckbox, NoCRC)

\* the delay before serialWrite (checkBootloaderThenSerialWrite)
writeDelayFired(w, it) == serialWrite(w, it.j, it.ph)

\* the callback of flashResetTimeout
flashResetTimeoutFired(w, it) == resetFailure(w, it.j)

\* main.js: three seconds after 'set-bar-completed' the bar is closed and
\* 'flash-success' reaches comms.stopCommunicating
mainCompletedFired(w, it) ==
    IF w.m.flashProgressBar
    THEN stopCommunicating([w EXCEPT !.m.flashProgressBar = FALSE])
    ELSE w

\* main.js: three seconds after 'set-bar-bootloader-update-completed'
mainBootloaderUpdatedFired(w, it) == bootloaderUpdateSuccess(w)

----------------------------------------------------------------------------
(* The device and the user: what the program's inputs can be *)

\* SerialPort.list() shows an AudioMoth bootloader
Found(w) == w.e.mode = "boot"

Value(v) == Outcome("value", v)

\* what callWithRetry gives for one HID call: `fails` attempts throw first
Retries == {0, 1, MAXIMUM_RETRIES}

\* a query of the status probe, answered by the firmware that is attached
QueryReplies(w, cap) ==
    IF w.e.mode = "app"
    THEN {callWithRetry(0, Value(<<IF cap THEN 1 ELSE 0, 0, 0, 0, 0>>), MAXIMUM_RETRIES)}
    ELSE {callWithRetry(0, Outcome("null", NoResult), MAXIMUM_RETRIES)}

\* switchToBootloader: accepted, refused or failing
SwitchReplies(w) ==
    IF w.e.mode = "app" /\ w.e.switch
    THEN {callWithRetry(f, Value(<<b, 0, 0, 0, 0>>), MAXIMUM_RETRIES) : f \in Retries, b \in {0, 1}}
    ELSE {callWithRetry(0, Outcome("null", NoResult), MAXIMUM_RETRIES)}

HidCommand(pc) ==
    CASE pc = "init" -> AM_BOOTLOADER_INITIALISE_SRAM
      [] pc = "packets" -> AM_BOOTLOADER_SET_SRAM_FIRMWARE_PACKET
      [] pc = "calc" -> AM_BOOTLOADER_CALC_SRAM_FIRMWARE_CRC
      [] pc = "getcrc" -> AM_BOOTLOADER_GET_FIRMWARE_CRC
      [] pc = "clear" -> AM_BOOTLOADER_CLEAR_USER_DATA
      [] pc = "flash" -> AM_BOOTLOADER_FLASH_FIRMWARE
      [] OTHER -> 0

\* the CRC the device computed over its SRAM, low byte first
DeviceCRCBytes == {<<53, 164>>, <<153, 153>>}

\* a command of the HID flasher: a device with the HID bootloader answers with an echo,
\* a status and two data bytes, any of which can be wrong; any other device does not
HidReplies(w, pc) ==
    IF w.e.mode = "app" /\ w.e.usbhid
    THEN {callWithRetry(f, Value(<<0, echo, status, b[1], b[2]>>), MAXIMUM_RETRIES) :
             f \in Retries, echo \in {HidCommand(pc), 0}, status \in {0, 1},
             b \in IF pc = "getcrc" THEN DeviceCRCBytes ELSE {<<0, 0>>}}
    ELSE {callWithRetry(0, Outcome("null", NoResult), MAXIMUM_RETRIES)}

VersionStrings == {<<"1", "0", "0">>, <<"1", "1", "0">>}

\* what the bootloader answers to the request at the head of the line
SerialReplies(req) ==
    LET good ==
          CASE req.t = "i" -> {Msg("Ver", 54, v) : v \in VersionStrings}
            [] req.t \in {"t", "d", "u"} -> {Msg("Ready", 11, <<>>)}
            [] req.t \in {"clear", "block", "EOF"} -> {Msg("ACK", 1, <<>>)}
            [] req.t \in {"c", "v"} -> {Msg("CRC", 18, Zeros4 \o c) : c \in CRCStrings}
            [] req.t = "n" -> {Msg("CRC", 18, Zeros4 \o c) : c \in CRCStrings \cup {Zeros4}}
            [] req.t = "r" -> {Msg("r", 1, <<>>)}
            [] OTHER -> {}
    IN  good

\* as many bytes as the reply the protocol names, but of something else
GarbledReplies(req) == {Msg("junk", m.len, <<>>) : m \in SerialReplies(req)}

\* the firmware that can be attached: its two capabilities
Firmwares == {<<TRUE, TRUE>>, <<FALSE, TRUE>>, <<FALSE, FALSE>>}

Devices ==
    {[mode |-> "absent", usbhid |-> FALSE, switch |-> FALSE],
     [mode |-> "boot", usbhid |-> FALSE, switch |-> FALSE]}
    \cup {[mode |-> "app", usbhid |-> f[1], switch |-> f[2]] : f \in Firmwares}

\* expectedCRC of a release: the release notes name a CRC or not
ReleaseCRCs == {NoCRC, <<"9", "9", "9", "9">>}

----------------------------------------------------------------------------
(* The state machine *)

Jobs == 1..MaxJobs

InitComms ==
    [communicating |-> FALSE, port |-> "undefined", flashFailed |-> FALSE,
    completionFunction |-> NoFn, receiveComplete |-> FALSE,
    responseExpected |-> Expect(0, ""), queue |-> <<>>, timedOut |-> FALSE,
    resetTime |-> 0, blockNumber |-> 0, lower |-> 0, upper |-> 0,
    numberOfRepeats |-> 0, splitBuffers |-> 0, readyCheckCount |-> 0,
    userDataCheckCount |-> 0, portErrorCallback |-> NoFn,
    openCallback |-> NoFn, bootloaderCheckTimedOut |-> FALSE]

InitApp ==
    [deviceStatus |-> STATUS_NO_AUDIOMOTH, inFlashableState |-> FALSE,
    inSerialBootloader |-> FALSE, overwriteBootloaderOptionEnabled |-> FALSE,
    clearUserDataEnabled |-> TRUE, useUSBHIDFlashing |-> TRUE,
    clearUserDataAttempts |-> 0, portOpenReattempts |-> 0,
    bootloaderVersionReattempts |-> 0, bootloaderUpdateCompleteCallback |-> 0,
    displayingBootloaderSuccess |-> FALSE, statusResult |-> NoStatus,
    supportsUSBHIDFlash |-> FALSE, supportsBootloaderSwitching |-> FALSE,
    currentTab |-> TAB_DOWNLOAD, destructiveCheckbox |-> FALSE,
    flashButtonDownloadedDisabled |-> TRUE, flashButtonLocalDisabled |-> TRUE]

InitObs ==
    [nJobs |-> 0,
    jobs |-> [j \in Jobs |-> [destructive |-> FALSE, crc |-> NoCRC, clear |-> FALSE,
                              preferUSBHID |-> FALSE, usbhid |-> FALSE,
                              status |-> STATUS_NO_AUDIOMOTH, size |-> 0,
                              refusal |-> "none"]],
    flasher |-> [j \in Jobs |-> "none"], crcChecked |-> {},
    hidSent |-> [j \in Jobs |-> {}], hidPoll |-> [j \in Jobs |-> NoResult],
    hidPollAtSend |-> [j \in Jobs |-> NoResult],
    switchAccepted |-> [j \in Jobs |-> FALSE],
    switchResolved |-> [j \in Jobs |-> 0],
    switchTimedOut |-> [j \in Jobs |-> FALSE], stepAfterTimeout |-> FALSE,
    aborted |-> [j \in Jobs |-> 0], completed |-> [j \in Jobs |-> 0],
    openAtReport |-> FALSE, resets |-> {}, lastRx |-> NoCRC,
    skipped |-> {}, image |-> {}, resetAcked |-> {},
    update |-> [j \in Jobs |-> "none"],
    block |-> <<>>, n |-> 0, frame |-> <<>>,
    afterTimeout |-> [timedOut |-> 0, sent |-> 0], sent |-> {}, devNext |-> 1,
     stalled |-> {}, afterStall |-> FALSE, otherCallback |-> FALSE, discarded |-> FALSE,
    crcRun |-> [firmwareData |-> <<>>, i |-> 0, j |-> 0, expectedCRC |-> 0, bits |-> 0,
               at |-> "off", text |-> <<>>],
    hidRun |-> [platform |-> "linux", firmwareData |-> <<>>, i |-> 0,
                numberOfBuffers |-> 0, totalNumberOfBytes |-> 0, buffers |-> <<>>,
                batches |-> <<>>, at |-> "off"],
    splitRun |-> [image |-> <<>>, buffer |-> <<>>, splitBuffers |-> <<>>, at |-> "off"],
    retryRun |-> [fails |-> 0, last |-> [t |-> "undefined", v |-> <<0, 0, 0, 0, 0>>],
                  repeats |-> 0, attempt |-> 0, calls |-> 0,
                  result |-> [t |-> "undefined", v |-> <<0, 0, 0, 0, 0>>],
                  returned |-> [t |-> "undefined", v |-> <<0, 0, 0, 0, 0>>], at |-> "off"]]

InitEnv(d) ==
    [mode |-> d.mode, usbhid |-> d.usbhid, switch |-> d.switch,
     switching |-> FALSE, reqs |-> <<>>, answer |-> FALSE,
     mute |-> FALSE, plugs |-> 0, faults |-> 0, cap |-> WireCap]

Init ==
    /\ comms = InitComms
    /\ app = InitApp
    /\ mainProc = [flashProgressBar |-> FALSE]
    /\ loop = {}
    /\ \E d \in Devices : env = InitEnv(d)
    /\ obs = InitObs

\* the handler has run to completion: its effects become the next state; the dialog
\* answer is used up, and what was written to a port that is not open is lost
Commit(w) ==
    /\ comms' = w.c
    /\ app' = w.a
    /\ mainProc' = w.m
    /\ loop' = w.l
    /\ env' = [w.e EXCEPT !.answer = FALSE,
                          !.reqs = IF w.c.port = "open" THEN @ ELSE <<>>]
    /\ obs' = w.o

Pending(k) == {it \in loop : it.k = k}

\* the user's answer to a dialog the handler is going to show
Answered(a) == [World EXCEPT !.e.answer = a]

(* the status loop *)
Tick ==
    /\ comms.communicating \/ Cardinality(Pending("probe")) < MaxProbes
    /\ Commit(updateStatusText(World))

ProbeStep ==
    \E it \in Pending("probe") :
      \E r \in QueryReplies(World, IF it.ph = "usbhid" THEN env.usbhid ELSE env.switch) :
        Commit(probeResume(take(World, it), it, Found(World), r))

(* the user *)
ToggleBootloaderOverwrite == Commit(toggleBootloaderOverwrite(World))

ToggleClearUserData == Commit(toggleClearUserData(World))

ToggleUSBHIDFlashing == Commit(toggleUSBHIDFlashing(World))

\* the checkbox lies in overwriteBootloaderDiv, which is shown while the option is on
DestructiveCheckboxChange ==
    /\ app.overwriteBootloaderOptionEnabled
    /\ \E a \in BOOLEAN : Commit(destructiveCheckboxChange(Answered(a)))

TabLinkClick ==
    \E tab \in {TAB_DOWNLOAD, TAB_LOCAL} : Commit(tabLinkClick(World, tab))

FlashButtonDownloadedClick ==
    /\ ~app.flashButtonDownloadedDisabled
    /\ app.currentTab = TAB_DOWNLOAD
    /\ obs.nJobs < MaxJobs
    /\ \E crc \in ReleaseCRCs : Commit(flashButtonDownloadedClick(World, crc))

FlashButtonLocalClick ==
    /\ ~app.flashButtonLocalDisabled
    /\ app.currentTab = TAB_LOCAL
    /\ obs.nJobs < MaxJobs
    /\ \E file \in LocalFiles, a \in BOOLEAN :
         Commit(flashButtonLocalClick(Answered(a), file))

\* the flash buttons with files of any name and size
FlashButtonDownloadedClickAnySize ==
    /\ ~app.flashButtonDownloadedDisabled
    /\ app.currentTab = TAB_DOWNLOAD
    /\ obs.nJobs < MaxJobs
    /\ \E crc \in ReleaseCRCs, size \in FileSizes :
         Commit(flashButtonDownloadedClickOf(World, size, crc))

FlashButtonLocalClickAnySize ==
    /\ ~app.flashButtonLocalDisabled
    /\ app.currentTab = TAB_LOCAL
    /\ obs.nJobs < MaxJobs
    /\ \E file \in AnyFiles, a \in BOOLEAN :
         Commit(flashButtonLocalClick(Answered(a), file))

(* awaited calls of a job resume *)
FbListDone == \E it \in Pending("fbList") : Commit(fbListDone(take(World, it), it, Found(World)))

FbList2Done ==
    \E it \in Pending("fbList2") : Commit(fbList2Done(take(World, it), it, Found(World)))

CbsListDone ==
    \E it \in Pending("cbsList") : Commit(cbsListDone(take(World, it), it, Found(World)))

OpcbListDone ==
    \E it \in Pending("opcbList") : Commit(opcbListDone(take(World, it), it, Found(World)))

OpswListDone ==
    \E it \in Pending("opswList") : Commit(opswListDone(take(World, it), it, Found(World)))

RbSwitchDone ==
    \E it \in Pending("rbSwitch") : \E r \in SwitchReplies(World) :
        Commit(rbSwitchDone(take(World, it), it, r))

ReadFileDone ==
    \E it \in Pending("readFile") : \E err \in BOOLEAN :
        Commit(readFileDone(take(World, it), it, err))

HidCallDone ==
    \E it \in Pending("hid") :
        /\ it.ph \notin {"pktDelay", "crcDelay"}
        /\ \E r \in HidReplies(World, it.ph) : Commit(hidResume(take(World, it), it, r))

HidDelayDone ==
    \E it \in Pending("hid") :
        /\ it.ph \in {"pktDelay", "crcDelay"}
        /\ Commit(hidResume(take(World, it), it, Thrown))

(* timers fire *)
\* the bootloader still owes a reply to what was written
ReplyDue == comms.port = "open" /\ env.reqs # <<>> /\ Found(World) /\ ~env.mute

Faulted(w) == [w EXCEPT !.e.faults = @ + 1]

\* 1500 ms without the reply
ResponseTimeout ==
    /\ ~ReplyDue
    /\ \E it \in Pending("responseTimeout") : Commit(responseTimeoutFired(take(World, it)))

\* the reply is late: the timer fires first
ResponseTimeoutEarly ==
    /\ ReplyDue
    /\ env.faults < MaxFaults
    /\ \E it \in Pending("responseTimeout") :
          Commit(responseTimeoutFired(Faulted(take(World, it))))

ReadyTimeout ==
    \E it \in Pending("readyTimeout") : Commit(readyTimeoutFired(take(World, it), it))

RestartTimer ==
    \E it \in Pending("restartTimer") : Commit(restartTimerFired(take(World, it), it))

\* 5000 ms: a responseTimeout (1500 ms) set with it fires first
FlashResetTimeout ==
    \E it \in Pending("flashResetTimeout") :
        /\ Pending("responseTimeout") = {}
        /\ Commit(flashResetTimeoutFired(take(World, it), it))

OpcbRetry == \E it \in Pending("opcbRetry") : Commit(opcbRetryFired(take(World, it), it))

OpcbOpen == \E it \in Pending("opcbOpen") : Commit(opcbOpenFired(take(World, it), it))

OpswRetry == \E it \in Pending("opswRetry") : Commit(opswRetryFired(take(World, it), it))

VersionRetry ==
    \E it \in Pending("versionRetry") : Commit(versionRetryFired(take(World, it), it))

WriteDelay == \E it \in Pending("writeDelay") : Commit(writeDelayFired(take(World, it), it))

CbsTimer == \E it \in Pending("cbsTimer") : Commit(cbsTimerFired(take(World, it), it))

BootloaderCheckTimeout ==
    \E it \in Pending("bootloaderCheckTimeout") :
        Commit(bootloaderCheckTimeoutFired(take(World, it), it))

FbDelay == \E it \in Pending("fbDelay") : Commit(fbDelayFired(take(World, it), it))

MainCompleted ==
    \E it \in Pending("mainCompleted") : Commit(mainCompletedFired(take(World, it), it))

MainBootloaderUpdated ==
    \E it \in Pending("mainBootloaderUpdated") :
        Commit(mainBootloaderUpdatedFired(take(World, it), it))

(* the serial port's events *)
PortOpened ==
    /\ comms.port = "opening"
    /\ Found(World)
    /\ Commit(openCallbackBody([World EXCEPT !.c.port = "open"], comms.openCallback))

\* 'error' while opening: the device is gone, or the port cannot be had
PortOpenFailed ==
    /\ comms.port = "opening"
    /\ ~Found(World) \/ env.faults < MaxFaults
    /\ Commit(portErrorCallbackBody(
           [World EXCEPT !.c.port = "closed",
                         !.e.faults = IF Found(World) THEN @ + 1 ELSE @],
           comms.portErrorCallback))

\* 'error' on the open port while serialWrite's error callback is installed
PortError ==
    /\ comms.port = "open"
    /\ comms.portErrorCallback.k = "failCb"
    /\ env.faults < MaxFaults
    /\ Commit(portErrorCallbackBody(Faulted(World), comms.portErrorCallback))

\* 'data': the bootloader's reply to the oldest request on the line
PortData ==
    /\ ReplyDue
    /\ \E m \in SerialReplies(Head(env.reqs)), a \in BOOLEAN :
         Commit(receive([Answered(a) EXCEPT !.e.reqs = Tail(@)], m))

\* 'data' from a bootloader that counts the blocks: it acknowledges the block it
\* expects and takes the next one then; to any other block it answers NAK or nothing
PortDataInSequence ==
    /\ ReplyDue
    /\ LET req == Head(env.reqs)
           w == [World EXCEPT !.e.reqs = Tail(@)]
       IN  IF req.t = "block"
           THEN IF req.n = obs.devNext
                THEN Commit(receive([w EXCEPT !.o.devNext = @ + 1], Msg("ACK", 1, <<>>)))
                ELSE \/ Commit(receive(w, Msg("NAK", 1, <<>>)))
                     \/ Commit(w)
           ELSE \E m \in SerialReplies(req), a \in BOOLEAN :
                   Commit(receive([w EXCEPT !.e.answer = a,
                                            !.o.devNext = IF req.t \in {"d", "u"} THEN 1 ELSE @],
                                  m))

\* the callback of port.write is given an error: nothing reached the device
WriteFailed ==
    /\ comms.port = "open"
    /\ env.reqs # <<>>
    /\ env.faults < MaxFaults
    /\ Commit(writeCallback(Faulted([World EXCEPT !.e.reqs = SubSeq(@, 1, Len(@) - 1)]), TRUE))

\* 'data': the reply is garbled
PortDataGarbled ==
    /\ ReplyDue
    /\ env.faults < MaxFaults
    /\ \E m \in GarbledReplies(Head(env.reqs)) :
         Commit(receive(Faulted([World EXCEPT !.e.reqs = Tail(@)]), m))

\* the bootloader stops answering for good
DeviceHangs ==
    /\ Found(World)
    /\ ~env.mute
    /\ comms.port = "open"
    /\ env.faults < MaxFaults
    /\ Commit(Faulted([World EXCEPT !.e.mute = TRUE]))

(* the device *)
\* the device is attached, detached or exchanged; an open port to a bootloader
\* that is gone closes
DeviceBecomes(d) ==
    /\ env.plugs < MaxPlugEvents
    /\ <<d.mode, d.usbhid, d.switch>> # <<env.mode, env.usbhid, env.switch>>
    /\ Commit([World EXCEPT !.e.mode = d.mode, !.e.usbhid = d.usbhid,
                            !.e.switch = d.switch, !.e.switching = FALSE,
                            !.e.mute = FALSE,
                            !.e.plugs = @ + 1,
                            !.c.port = IF @ = "open" THEN "closed" ELSE @])

DeviceChange == \E d \in Devices : DeviceBecomes(d)

\* the device is unplugged
DeviceDetached == \E d \in Devices : d.mode = "absent" /\ DeviceBecomes(d)

\* the firmware that accepted switchToBootloader restarts into the bootloader
DeviceEntersBootloader ==
    /\ env.switching
    /\ env.mode = "app"
    /\ Commit([World EXCEPT !.e.mode = "boot", !.e.usbhid = FALSE, !.e.switch = FALSE,
                            !.e.switching = FALSE])

Next ==
    \/ Tick \/ ProbeStep
    \/ ToggleBootloaderOverwrite \/ ToggleClearUserData \/ ToggleUSBHIDFlashing
    \/ DestructiveCheckboxChange \/ TabLinkClick
    \/ FlashButtonDownloadedClick \/ FlashButtonLocalClick
    \/ FbListDone \/ FbList2Done \/ CbsListDone \/ OpcbListDone \/ OpswListDone
    \/ RbSwitchDone \/ ReadFileDone \/ HidCallDone \/ HidDelayDone
    \/ ResponseTimeout \/ ReadyTimeout \/ RestartTimer \/ FlashResetTimeout
    \/ OpcbRetry \/ OpcbOpen \/ OpswRetry \/ VersionRetry \/ WriteDelay
    \/ CbsTimer \/ BootloaderCheckTimeout \/ FbDelay
    \/ MainCompleted \/ MainBootloaderUpdated
    \/ ResponseTimeoutEarly
    \/ PortOpened \/ PortOpenFailed \/ PortError \/ PortData \/ PortDataGarbled
    \/ WriteFailed
    \/ DeviceChange \/ DeviceEntersBootloader \/ DeviceHangs

Spec == Init /\ [][Next]_vars

----------------------------------------------------------------------------
(* The dispatcher: every user action at any time, any device and any      *)
(* probe; the calls a job started here is waiting for do not return: the  *)
(* steps of a job are those of the two specifications below               *)

NextUI ==
    \/ Tick \/ ProbeStep
    \/ ToggleBootloaderOverwrite \/ ToggleClearUserData \/ ToggleUSBHIDFlashing
    \/ DestructiveCheckboxChange \/ TabLinkClick
    \/ FlashButtonDownloadedClick \/ FlashButtonLocalClick
    \/ DeviceChange

SpecUI == Init /\ [][NextUI]_vars

----------------------------------------------------------------------------
(* The two flashers under faults, with the settings the program starts    *)
(* with: the user asks for a flash between two probes, and a device that  *)
(* accepted the switch to the bootloader enters it before the timeout     *)

QuietDownloadedClick == Pending("probe") = {} /\ FlashButtonDownloadedClick

NextFlash ==
    \/ Tick \/ ProbeStep
    \/ QuietDownloadedClick
    \/ FbListDone \/ FbList2Done \/ CbsListDone \/ OpcbListDone \/ OpswListDone
    \/ RbSwitchDone \/ ReadFileDone \/ HidCallDone \/ HidDelayDone
    \/ ResponseTimeout \/ ReadyTimeout \/ RestartTimer \/ FlashResetTimeout
    \/ OpcbRetry \/ OpcbOpen \/ OpswRetry \/ VersionRetry \/ WriteDelay
    \/ CbsTimer \/ FbDelay
    \/ MainCompleted \/ MainBootloaderUpdated
    \/ ResponseTimeoutEarly
    \/ PortOpened \/ PortOpenFailed \/ PortError \/ PortData \/ PortDataGarbled
    \/ WriteFailed
    \/ DeviceEntersBootloader \/ DeviceHangs

SpecFlash == Init /\ [][NextFlash]_vars

----------------------------------------------------------------------------
(* The switch to the bootloader, with every timing of its timers and      *)
(* polls, up to the point where the job would open the serial port        *)

NextSwitch ==
    \/ Tick \/ ProbeStep
    \/ FlashButtonDownloadedClick
    \/ FbListDone \/ RbSwitchDone \/ CbsListDone \/ CbsTimer \/ BootloaderCheckTimeout
    \/ FbList2Done \/ FbDelay
    \/ DeviceDetached \/ DeviceEntersBootloader

SpecSwitch == Init /\ [][NextSwitch]_vars

----------------------------------------------------------------------------
(* The flash buttons with files of any name and size, on any device and    *)
(* with the overwrite option and the checkbox set either way: what a click *)
(* starts, up to the first call that waits for the device                 *)

NextFile ==
    \/ Tick \/ ProbeStep
    \/ ToggleBootloaderOverwrite \/ DestructiveCheckboxChange \/ TabLinkClick
    \/ FlashButtonDownloadedClickAnySize \/ FlashButtonLocalClickAnySize

SpecFile == Init /\ [][NextFile]_vars

----------------------------------------------------------------------------
(* One serial job on a bootloader that counts the blocks and whose input *)
(* holds one request more: a reply can arrive after the next request was *)
(* written                                                               *)

\* the sizes of the image: two and four blocks
TransferSizes == {ImageLen, 3 * BLOCK_SIZE + 1}

FirstDownloadedClick ==
    /\ ~app.flashButtonDownloadedDisabled
    /\ Pending("probe") = {}
    /\ obs.nJobs = 0
    /\ \E crc \in ReleaseCRCs, size \in TransferSizes :
         Commit(flashButtonDownloadedClickOf(World, size, crc))

InitXmodem ==
    /\ comms = InitComms
    /\ app = InitApp
    /\ mainProc = [flashProgressBar |-> FALSE]
    /\ loop = {}
    /\ env = [InitEnv([mode |-> "boot", usbhid |-> FALSE, switch |-> FALSE])
                 EXCEPT !.cap = WireCap + 1]
    /\ obs = InitObs

NextXmodem ==
    \/ Tick \/ ProbeStep
    \/ ToggleClearUserData
    \/ FirstDownloadedClick
    \/ FbListDone \/ OpcbListDone \/ OpswListDone \/ ReadFileDone
    \/ ResponseTimeout \/ ReadyTimeout \/ RestartTimer \/ FlashResetTimeout
    \/ OpcbRetry \/ OpcbOpen \/ OpswRetry \/ VersionRetry \/ WriteDelay
    \/ MainCompleted \/ MainBootloaderUpdated
    \/ ResponseTimeoutEarly
    \/ PortOpened \/ PortOpenFailed \/ PortError \/ PortDataInSequence \/ PortDataGarbled
    \/ WriteFailed \/ DeviceHangs

SpecXmodem == InitXmodem /\ [][NextXmodem]_vars

----------------------------------------------------------------------------
(* The properties *)

\* the kinds of callback that only the status loop and the progress bar leave pending
OtherKinds == {"probe", "mainCompleted", "mainBootloaderUpdated"}

\* the pending flashing steps: awaited calls, retry and timeout timers of a job
FlashSteps == {it \in loop : it.k \notin OtherKinds}

\* a serial port is being opened or is open
PortInUse == comms.port \in {"opening", "open"}

\* the jobs started so far
Started == 1..obs.nJobs

\* C1: every pending flashing step belongs to one job, and the busy flag is true
\* whenever a flashing step is pending or the serial port is in use
C1_OneJobInFlight ==
    /\ Cardinality({it.j : it \in FlashSteps}) <= 1
    /\ (FlashSteps # {} \/ PortInUse) => comms.communicating

\* C2: while the busy flag is true no call of a status probe is in flight
C2_NoProbeWhileBusy == comms.communicating => Pending("probe") = {}

\* C3: no step of a job waits indefinitely: while the busy flag is true, a callback
\* or timer of the job is pending, a port is being opened, or a reply is due
C3_BusyJobHasNextStep ==
    comms.communicating =>
        \/ loop \ Pending("probe") # {}
        \/ comms.port = "opening"
        \/ ReplyDue

\* C4: a failed job leaves nothing behind that changes the steps of the next one: a
\* send is dropped for an earlier failure only in the job that reported the failure
C4_FailureStaysInItsJob == \A j \in obs.skipped : obs.aborted[j] > 0

\* C5: the serial port is closed before an outcome is reported to the user
C5_PortClosedAtReport == ~obs.openAtReport

\* the CRC the job's serial flash was given to expect
Expected(x) == ExpectedCRC(World, x.j, x.ph)

PollMatched(j) ==
    LET result == obs.hidPollAtSend[j] IN
    /\ result[2] = AM_BOOTLOADER_GET_FIRMWARE_CRC
    /\ result[3] = 1
    /\ Hex4(result[4] + 256 * result[5]) = ExpectedHID(World, j)

\* C7: CLEAR_USER_DATA and FLASH_FW are sent only after a GET_FW_CRC poll with
\* status 0x01 and the expected CRC; after a mismatch or a timeout neither is sent
\* and the job fails
C7_FlashOnlyOnMatchingCRC ==
    \A j \in Started :
        /\ obs.hidSent[j] # {} => PollMatched(j)
        /\ (obs.hidPoll[j] # NoResult /\ obs.hidSent[j] = {} /\ Pending("hid") = {})
               => obs.aborted[j] > 0

\* FLASH_FW has been sent by a HID job
C7_Witness == \E j \in Started : "flash" \in obs.hidSent[j] /\ PollMatched(j)

\* C8: a job whose destructive flag is true never uses the USB-HID flasher
C8_DestructiveNeverHID ==
    \A j \in Started : obs.jobs[j].destructive => obs.flasher[j] # "hid"

\* a destructive job was started on a device the HID flasher would be used for
C8_Witness ==
    \E j \in Started :
        /\ obs.jobs[j].destructive
        /\ obs.flasher[j] = "serial"
        /\ obs.jobs[j].preferUSBHID /\ obs.jobs[j].usbhid
        /\ obs.jobs[j].status # STATUS_SERIAL_BOOTLOADER

\* the rule for the USB-HID flasher, on the settings and status at the request
HIDExpected(j) ==
    /\ obs.jobs[j].preferUSBHID
    /\ obs.jobs[j].usbhid
    /\ ~obs.jobs[j].destructive
    /\ obs.jobs[j].status # STATUS_SERIAL_BOOTLOADER

\* C9: a job uses the USB-HID flasher exactly when preferUSBHID is set, the status
\* reports usbhid, the job is not destructive and the status is not the serial
\* bootloader; otherwise it uses the serial flasher
C9_HIDExactlyWhenRuleHolds ==
    \A j \in Started :
        obs.flasher[j] \in {"hid", "serial"} => (obs.flasher[j] = "hid" <=> HIDExpected(j))

\* C10: an accepted switch is resolved at most once, and after its timeout has
\* been reported no flashing step of the job is started
C10_SwitchResolvedOnce ==
    /\ \A j \in Started : obs.switchAccepted[j] => obs.switchResolved[j] <= 1
    /\ ~obs.stepAfterTimeout

\* the updater sub-flash of job j was verified and its reset acknowledged
UpdaterApplied(j) ==
    /\ [j |-> j, ph |-> "upd", rx |-> bootloaderCRC] \in obs.crcChecked
    /\ [j |-> j, ph |-> "upd"] \in obs.resetAcked

SizeLimit(j) == IF obs.jobs[j].destructive THEN MAX_FILE_SIZE_DESTRUCTIVE ELSE MAX_FILE_SIZE

\* C12: no job is started (the busy flag set, the device addressed) for an image
\* larger than the limit of its kind
C12_OversizedNeverStarted == \A j \in Started : obs.jobs[j].size <= SizeLimit(j)

\* C13: no command of the USB-HID flasher is in flight for an image larger than
\* MAX_USBHID
C13_OversizedNeverOnHID ==
    \A it \in Pending("hid") : obs.jobs[it.j].size <= MAX_USBHID

\* C14: a destructive job for a file with the name of a release, or whose overwrite
\* prompt was declined, reaches no flasher, is aborted, leaves nothing pending and
\* clears the busy flag; a destructive job reaches a flasher only after the prompt
\* was confirmed for a file of another name
C14_DestructiveNeedsConfirmation ==
    \A j \in Started :
        (obs.jobs[j].destructive /\ obs.jobs[j].refusal # "none")
            => /\ obs.flasher[j] = "none"
               /\ obs.aborted[j] > 0
               /\ \A it \in FlashSteps : it.j # j
               /\ j = obs.nJobs => (~comms.communicating /\ ~PortInUse)

\* one destructive job was refused and another was confirmed and given to the
\* serial flasher
C14_Witness ==
    \E j, k \in Started :
        /\ obs.jobs[j].destructive /\ obs.jobs[j].refusal = "refused"
        /\ obs.jobs[k].destructive /\ obs.jobs[k].refusal = "none"
        /\ obs.flasher[k] = "serial"

\* the callbacks that are timers of a job
TimerKinds == {"responseTimeout", "readyTimeout", "flashResetTimeout", "restartTimer",
               "opcbRetry", "opcbOpen", "opswRetry", "versionRetry", "writeDelay",
               "cbsTimer", "bootloaderCheckTimeout", "fbDelay"}

\* the failure of job j has been reported and the busy flag cleared since
FailedAndOver(j) == obs.aborted[j] > 0 /\ (comms.communicating => obs.nJobs > j)

\* C15: once the failure of a job has been reported and the busy flag cleared, no
\* timer of that job is left to fire
C15_NoTimerAfterFailure ==
    \A it \in loop : (it.k \in TimerKinds /\ it.j \in Started) => ~FailedAndOver(it.j)

\* C16: a job reports at most one terminal outcome (set-bar-aborted / error dialog, or
\* set-bar-completed) to the user interface
C16_OneTerminalOutcome == \A j \in Started : obs.aborted[j] + obs.completed[j] <= 1

\* the XMODEM transfer of a job: from the first block to the acknowledgement of EOF
InTransfer == comms.completionFunction.k \in {"blockCb", "eofCb"}

\* C18: during an XMODEM transfer 0 <= lower <= upper <= number of blocks, and the
\* block chosen for the next send lies between lower and upper
C18_WindowInBounds ==
    InTransfer =>
        /\ 0 <= comms.lower
        /\ comms.lower <= comms.upper
        /\ comms.upper <= comms.splitBuffers
        /\ comms.lower <= comms.blockNumber
        /\ comms.blockNumber <= comms.upper

\* after a timeout the window is two blocks wide and its upper block has been sent
C18_Witness ==
    /\ comms.completionFunction.k = "blockCb"
    /\ comms.lower < comms.upper
    /\ comms.blockNumber = comms.upper
    /\ \E req \in {env.reqs[i] : i \in 1..Len(env.reqs)} :
          req.t = "block" /\ req.n = comms.blockNumber + 1

\* C19: when a block that is not the last one times out, the next frame is that block
\* again
C19_TimedOutBlockIsResent == obs.afterTimeout.sent = obs.afterTimeout.timedOut

-----------------------------------------------------------------------------
(* The XMODEM frame: crc16 and generateSendBuffer as functions of a block *)

SOH == 1
FILLER == 255

\* a ^ b on non-negative integers
RECURSIVE xor(_, _)
xor(a, b) ==
    IF a = 0 THEN b
    ELSE IF b = 0 THEN a
    ELSE ((a + b) % 2) + 2 * xor(a \div 2, b \div 2)

\* the body of the loop of crc16 for one byte
crc16Byte(crc, byte) ==
    LET code1 == xor((crc \div 256) % 256, byte % 256)
        code2 == xor(code1, code1 \div 16)
    IN  xor(xor(xor((crc * 256) % 65536, code2), (code2 * 32) % 65536),
            (((code2 * 32) % 65536) * 128) % 65536)

\* the loop of crc16 from byte i to byte last
RECURSIVE crc16From(_, _, _, _)
crc16From(buffer, i, last, crc) ==
    IF i > last \/ crc < 0 THEN crc
    ELSE crc16From(buffer, i + 1, last, crc16Byte(crc, buffer[i]))

\* the loop of crc16, sixteen bytes at a time
RECURSIVE crc16Rows(_, _, _)
crc16Rows(buffer, i, crc) ==
    IF i > Len(buffer) \/ crc < 0 THEN crc
    ELSE crc16Rows(buffer, i + 16, crc16From(buffer, i, Min(i + 15, Len(buffer)), crc))

crc16(buffer) == crc16Rows(buffer, 1, 0)

\* Number.toString(16): the hexadecimal digits without leading zeros, a digit being
\* written as its value
RECURSIVE toString16(_)
toString16(v) == IF v < 16 THEN <<v>> ELSE Append(toString16(v \div 16), v % 16)

\* Buffer.from(string, 'hex'): one byte for each complete pair of digits
BufferFromHex(str) == [i \in 1..(Len(str) \div 2) |-> 16 * str[2 * i - 1] + str[2 * i]]

\* Buffer.from(array): each value is stored as an unsigned byte
BufferFrom(array) == [i \in 1..Len(array) |-> array[i] % 256]

\* the padding of generateSendBuffer without its second step
padCRCOddOnly(crcString) ==
    IF Len(crcString) % 2 = 1 THEN <<0>> \o crcString ELSE crcString

\* the two padding steps of generateSendBuffer
padCRC(crcString) ==
    LET padded == IF Len(crcString) % 2 = 1 THEN <<0>> \o crcString ELSE crcString
    IN  IF Len(padded) = 2 THEN <<0, 0>> \o padded ELSE padded

\* generateSendBuffer(n), block being splitBuffers[n]
generateSendBuffer(block, n) ==
    LET crcString == padCRC(toString16(crc16(block)))
        bn == n + 1
    IN  BufferFrom(<<SOH>>) \o BufferFrom(<<bn>>) \o BufferFrom(<<255 - bn>>)
            \o block \o BufferFromHex(crcString)

\* one pass of the splitting loop of sendFirmware: the next block of the buffer
splitBlockZeroFilled(buffer) ==
    [i \in 1..BLOCK_SIZE |-> IF i <= Len(buffer) THEN buffer[i] ELSE 0]

splitBlock(buffer) ==
    [i \in 1..BLOCK_SIZE |-> IF i <= Len(buffer) THEN buffer[i] ELSE FILLER]

\* the largest number of blocks of an image
MaxBlocks == MAX_FILE_SIZE_DESTRUCTIVE \div BLOCK_SIZE

\* the indexes the frames are built for
BlockIndexes == {0, 1, 126, 127, 254, 255, 256, 510, 511, MaxBlocks - 2, MaxBlocks - 1}

\* 128 bytes of an image: all bytes equal but the last two
Filled(fill, a, b) ==
    [i \in 1..BLOCK_SIZE |->
        IF i = BLOCK_SIZE - 1 THEN a ELSE IF i = BLOCK_SIZE THEN b ELSE fill]

\* what is left of the buffer when a block is split off: full blocks whose crc16 is
\* 0, 7, 10h, FFh, 100h, ABCh, 1000h, FFFFh and A435h, and the short ends of images
Buffers ==
    {Filled(0, t[1], t[2]) : t \in {<<0, 0>>, <<226, 52>>, <<70, 57>>, <<154, 60>>,
                                    <<35, 20>>, <<107, 226>>, <<17, 2>>, <<132, 207>>,
                                    <<36, 248>>}}
        \cup {Filled(255, t[1], t[2]) : t \in {<<29, 163>>, <<255, 151>>, <<135, 159>>,
                                              <<118, 65>>, <<255, 255>>}}
        \cup {<<1>>, <<0, 0, 0>>, <<49, 50, 51, 52, 53, 54, 55, 56, 57>>}

InitFrames ==
    /\ comms = InitComms
    /\ app = InitApp
    /\ mainProc = [flashProgressBar |-> FALSE]
    /\ loop = {}
    /\ env = InitEnv([mode |-> "absent", usbhid |-> FALSE, switch |-> FALSE])
    /\ \E buffer \in Buffers : obs = [InitObs EXCEPT !.block = splitBlock(buffer)]

GenerateSendBuffer ==
    /\ \E n \in BlockIndexes :
          obs' = [obs EXCEPT !.n = n, !.frame = generateSendBuffer(obs.block, n)]
    /\ UNCHANGED <<comms, app, mainProc, loop, env>>

NextFrames == GenerateSendBuffer

SpecFrames == InitFrames /\ [][NextFrames]_vars

\* C17: the frame of block n + 1 has 133 bytes: SOH, the block number modulo 256, its
\* complement to FFh, the 128 bytes of the block, and the crc16 of the block as two
\* bytes, high byte first, whatever the number of digits of the CRC
C17_FrameLayout ==
    obs.frame # <<>> =>
        /\ Len(obs.frame) = 133
        /\ obs.frame[1] = 1
        /\ obs.frame[2] = (obs.n + 1) % 256
        /\ obs.frame[3] = 255 - obs.frame[2]
        /\ SubSeq(obs.frame, 4, 131) = obs.block
        /\ obs.frame[132] = crc16(obs.block) \div 256
        /\ obs.frame[133] = crc16(obs.block) % 256

\* block 2048 with a CRC of one hexadecimal digit has been framed
C17_Witness ==
    /\ obs.frame # <<>>
    /\ obs.n + 1 = MaxBlocks
    /\ crc16(obs.block) = 7

-----------------------------------------------------------------------------
(* The CRC USBHIDFlash computes from the file when none is given *)

FIRMWARE_CRC_POLY == 4129

\* the number of bytes the CRC covers; it stands for AM_FIRMWARE_TOTAL_SIZE = 240 * 1024
TotalSize == 3

\* updateCRC without the mask of the shifted value
updateCRCNoMask(crc, incr) ==
    LET out == crc * 2 + (IF incr # 0 THEN 1 ELSE 0)
    IN  IF crc \div 32768 # 0 THEN xor(out, FIRMWARE_CRC_POLY) ELSE out

updateCRC(crc, incr) ==
    LET out1 == (crc * 2) % 65536
        out2 == IF incr # 0 THEN (out1 + 1) % 65536 ELSE out1
    IN  IF crc \div 32768 # 0 THEN xor(out2, FIRMWARE_CRC_POLY) ELSE out2

\* byte & j for a mask j of one bit
bitAnd(byte, j) == ((byte \div j) % 2) * j

\* one pass of the inner loop: bit j of byte i
crcBit(run) ==
    LET byte == IF run.i < Len(run.firmwareData) THEN run.firmwareData[run.i + 1] ELSE 255
        crc == updateCRC(run.expectedCRC, bitAnd(byte, run.j))
        last == run.j = 1
        end == last /\ run.i + 1 >= TotalSize
    IN  [run EXCEPT !.expectedCRC = crc, !.bits = @ + 1,
                    !.j = IF end THEN 0 ELSE IF last THEN 128 ELSE run.j \div 2,
                    !.i = IF last THEN @ + 1 ELSE @,
                    !.at = IF end THEN "zeros" ELSE @]

\* one pass of the loop of the sixteen zero bits
crcZero(run) ==
    [run EXCEPT !.expectedCRC = updateCRC(@, 0), !.bits = @ + 1, !.j = @ + 1,
                !.at = IF run.j + 1 >= 16 THEN "format" ELSE @]

\* expectedCRC = ('0000' + expectedCRC.toString(16).toUpperCase()).slice(-4)
crcFormat(run) == [run EXCEPT !.text = Hex4(run.expectedCRC), !.at = "done"]

\* the bytes of the files
FileBytes == {0, 1, 128, 255}

\* the files: up to TotalSize bytes
Images == UNION {[1..len -> FileBytes] : len \in 0..TotalSize}

InitCRC ==
    /\ comms = InitComms
    /\ app = InitApp
    /\ mainProc = [flashProgressBar |-> FALSE]
    /\ loop = {}
    /\ env = InitEnv([mode |-> "app", usbhid |-> TRUE, switch |-> TRUE])
    /\ \E firmwareData \in Images :
          obs = [InitObs EXCEPT !.crcRun = [@ EXCEPT !.firmwareData = firmwareData,
                                                     !.j = IF TotalSize > 0 THEN 128 ELSE 0,
                                                     !.at = IF TotalSize > 0 THEN "bytes"
                                                                             ELSE "zeros"]]

CRCStep(run) ==
    /\ obs' = [obs EXCEPT !.crcRun = run]
    /\ UNCHANGED <<comms, app, mainProc, loop, env>>

CrcBit == obs.crcRun.at = "bytes" /\ CRCStep(crcBit(obs.crcRun))

CrcZero == obs.crcRun.at = "zeros" /\ CRCStep(crcZero(obs.crcRun))

CrcFormat == obs.crcRun.at = "format" /\ CRCStep(crcFormat(obs.crcRun))

NextCRC == CrcBit \/ CrcZero \/ CrcFormat

SpecCRC == InitCRC /\ [][NextCRC]_vars

\* the bits of a byte, most significant first
ByteBits(byte) == [k \in 1..8 |-> (byte \div (2 ^ (8 - k))) % 2]

\* the bits of the file padded with FFh to TotalSize bytes, then sixteen zero bits
RECURSIVE MessageBits(_, _)
MessageBits(file, i) ==
    IF i > TotalSize THEN [k \in 1..16 |-> 0]
    ELSE ByteBits(IF i <= Len(file) THEN file[i] ELSE 255) \o MessageBits(file, i + 1)

\* the bit-serial CRC of the first n bits: state 0, polynomial 1021h
RECURSIVE BitSerial(_, _)
BitSerial(bits, n) ==
    IF n = 0 THEN 0
    ELSE LET state == BitSerial(bits, n - 1)
             shifted == (2 * state + bits[n]) % 65536
         IN  IF state >= 32768 THEN xor(shifted, 4129) ELSE shifted

\* the value of a text of hexadecimal digits in upper case
RECURSIVE HexValue(_)
HexValue(text) ==
    IF text = <<>> THEN 0
    ELSE 16 * HexValue(SubSeq(text, 1, Len(text) - 1))
            + (CHOOSE d \in 0..15 : HexChar[d + 1] = text[Len(text)])

\* C20: the CRC computed from the file is the bit-serial CRC of the padded file
\* followed by sixteen zero bits: as many bits are processed, the state stays within
\* 16 bits all along, and the result is written as four hexadecimal digits in upper case
C20_ImageCRC ==
    LET run == obs.crcRun
        bits == MessageBits(run.firmwareData, 1)
    IN  run.at # "off" =>
            /\ run.expectedCRC \in 0..65535
            /\ run.bits <= Len(bits)
            /\ run.expectedCRC = BitSerial(bits, run.bits)
            /\ run.at \in {"format", "done"} => run.bits = TotalSize * 8 + 16
            /\ run.at = "done" =>
                  /\ Len(run.text) = 4
                  /\ \A k \in 1..4 : \E d \in 1..16 : run.text[k] = HexChar[d]
                  /\ HexValue(run.text) = BitSerial(bits, Len(bits))

\* the CRC of a file shorter than the area is done and starts with a zero digit
C20_Witness ==
    /\ obs.crcRun.at = "done"
    /\ obs.crcRun.firmwareData # <<>>
    /\ Len(obs.crcRun.firmwareData) < TotalSize
    /\ obs.crcRun.text[1] = "0"

-----------------------------------------------------------------------------
(* The XMODEM transfer against a bootloader that counts the blocks *)

\* the request the bootloader answers next
Answering == IF env.reqs = <<>> THEN NoReq ELSE Head(env.reqs)

\* C21: lower passes block n only in a step that processes the acknowledgement of a
\* transmission of block n
C21_LowerPassesAckedBlock ==
    [][(comms.completionFunction.k = "blockCb" /\ comms'.lower > comms.lower)
          => (Answering.t = "block" /\ Answering.n = comms'.lower)]_vars

\* C22: when the sender processes an acknowledgement, its next block is the block the
\* bootloader expects next, and when EOF is written the bootloader has taken every block
C22_SenderAndDeviceAgree ==
    [][/\ (comms.completionFunction.k = "blockCb" /\ comms'.lower > comms.lower)
            => comms'.lower + 1 = obs'.devNext
       /\ (comms.completionFunction.k = "blockCb" /\ comms'.completionFunction.k = "eofCb")
            => obs'.devNext = comms'.splitBuffers + 1]_vars

\* C23: when EOF is written every block of the image has been written at least once
C23_AllBlocksSentBeforeEOF ==
    comms.completionFunction.k = "eofCb" => obs.sent = 1..comms.splitBuffers

\* EOF is written for an image of four blocks after a timeout of one of its blocks
C23_Witness ==
    /\ comms.completionFunction.k = "eofCb"
    /\ comms.splitBuffers = 4
    /\ obs.afterTimeout.timedOut > 0
    /\ obs.sent = 1..4

\* a block is awaited by a transfer that has not failed
AwaitingBlock == comms.completionFunction.k = "blockCb" /\ ~comms.flashFailed

\* the response timeout of the block fires
BlockTimeout == AwaitingBlock /\ (ResponseTimeout \/ ResponseTimeoutEarly)

\* the acknowledgement of the bootloader is received
BlockAck ==
    /\ AwaitingBlock /\ ~comms.timedOut /\ ~comms.receiveComplete
    /\ Answering.t = "block" /\ Answering.n = obs.devNext
    /\ PortDataInSequence

\* a byte that is not ACK is received
BlockUnexpected ==
    /\ AwaitingBlock /\ ~comms.timedOut /\ ~comms.receiveComplete
    /\ PortDataGarbled
\/ /\ AwaitingBlock /\ ~comms.timedOut /\ ~comms.receiveComplete
    /\ Answering.t = "block" /\ Answering.n # obs.devNext
    /\ PortDataInSequence /\ comms' # comms

BlockNotAcknowledged ==
    /\ AwaitingBlock
    /\ \/ ResponseTimeout \/ ResponseTimeoutEarly
       \/ /\ PortData \/ PortDataInSequence \/ PortDataGarbled
          /\ ~comms.timedOut /\ ~comms.receiveComplete
          /\ comms' # comms /\ comms'.lower = comms.lower

C26_SendInvokesItsCallback ==
    [][/\ obs'.skipped = obs.skipped
       /\ ~obs'.otherCallback
       /\ WriteFailed => \E it \in loop' : it.k = "responseTimeout"]_vars

Written == IF env.reqs = <<>> THEN NoReq ELSE env.reqs[Len(env.reqs)]

\* C28: when the write of a block frame fails with a write error, the same block is
\* written again and lower is not advanced
C28_WriteErrorResendsBlock ==
    [][(AwaitingBlock /\ Written.t = "block" /\ WriteFailed)
          => /\ comms'.lower = comms.lower
             /\ env'.reqs # <<>>
             /\ env'.reqs[Len(env'.reqs)] = Written]_vars

\* no request awaits a response: the last one was answered or timed out
NoRequestAwaiting == comms.port = "open" /\ (comms.receiveComplete \/ comms.timedOut)

\* a reply of the device arrives
DataArrives == PortData \/ PortDataInSequence \/ PortDataGarbled

\* C29: bytes that arrive while no request awaits a response are buffered for the
\* response of the next request
C29_StrayBytesAreBuffered ==
    [][(NoRequestAwaiting /\ DataArrives)
          => QueueLen(comms'.queue) > QueueLen(comms.queue)]_vars

\* C29 as the code has it: bytes that arrive while no request awaits a response are
\* discarded; nothing is buffered and no callback runs
C29_StrayBytesAreDiscarded ==
    [][(NoRequestAwaiting /\ DataArrives) => (comms' = comms /\ loop' = loop)]_vars

\* a late reply was discarded and no request has been written since
C29_Witness == obs.discarded /\ NoRequestAwaiting /\ comms.communicating

\* the callback awaited is one of the clear sub-protocol
InClear(fn) ==
    \/ fn.k = "readyCb" /\ fn.n = 0
    \/ fn.k \in {"clearBlockCb", "clearEOFCb", "clearCheckCb"}

\* the callback awaited is that of step k with argument n
Awaits(fn, k, n) == fn.k = k /\ fn.n = n

-----------------------------------------------------------------------------
(* The USB-HID flasher on a device whose firmware supports it: one flash of  *)
(* one or two batches of packets, with or without the clearing of user data *)

HIDSizes == {ImageLen, NUMBER_OF_BUFFER_TO_SEND * MAXIMUM_FIRMWARE_PACKET_SIZE + 1}

FirstHIDClick ==
    /\ ~app.flashButtonDownloadedDisabled
    /\ Pending("probe") = {}
    /\ obs.nJobs = 0
    /\ \E crc \in ReleaseCRCs, size \in HIDSizes :
         Commit(flashButtonDownloadedClickOf(World, size, crc))

InitHID ==
    /\ comms = InitComms
    /\ app = InitApp
    /\ mainProc = [flashProgressBar |-> FALSE]
    /\ loop = {}
    /\ env = InitEnv([mode |-> "app", usbhid |-> TRUE, switch |-> TRUE])
    /\ obs = InitObs

NextHID ==
    \/ Tick \/ ProbeStep \/ ToggleClearUserData \/ FirstHIDClick
    \/ HidCallDone \/ HidDelayDone
    \/ RestartTimer \/ MainCompleted
    \/ DeviceChange

SpecHID == InitHID /\ [][NextHID]_vars

-----------------------------------------------------------------------------
(* Budgets of retries *)

\* C31: every job that asks for its user data to be cleared starts the sub-protocol with
\* clearUserDataAttempts = 0, however the jobs before it ended
C31_ClearBudgetPerJob ==
    [][(ReadFileDone /\ app.clearUserDataEnabled) => app.clearUserDataAttempts = 0]_vars

-----------------------------------------------------------------------------
(* The USB-HID flasher *)

\* the response r to command pc is accepted: the command is echoed and, for the
\* commands that report a status, the status is 0x01
Accepted(pc, r) ==
    /\ r.t = "value"
    /\ r.v[2] = HidCommand(pc)
    /\ pc \in {"init", "clear", "flash"} => r.v[3] = 1

\* the steps of USBHIDFlash that may follow step pc of a job
Successors(pc, clearing) ==
    CASE pc = "init" -> {"packets", "calc"}
      [] pc = "packets" -> {"pktDelay"}
      [] pc = "pktDelay" -> {"packets", "calc"}
      [] pc = "calc" -> {"crcDelay"}
      [] pc = "crcDelay" -> {"getcrc"}
      [] pc = "getcrc" -> {"crcDelay"} \cup (IF clearing THEN {"clear"} ELSE {"flash"})
      [] pc = "clear" -> {"flash"}
      [] OTHER -> {}

\* the steps of job j that are pending after the step
HidNext(j) == {x \in loop' : x.k = "hid" /\ x.j = j}

\* C32: the commands of the USB-HID flasher go out in the order INIT_SRAM, the packet
\* batches up to the end of the image, CALC_SRAM_CRC, the GET_FW_CRC polls,
\* CLEAR_USER_DATA exactly when the job clears user data, FLASH_FW, each after the
\* response to the one before was accepted; a response that is not accepted is followed
\* by one report of the failure and by no command
C32_HIDCommandOrder ==
    [][\A it \in Pending("hid") :
         \A r \in HidReplies(World, it.ph) :
           Commit(hidResume(take(World, it), it, r)) =>
             LET delay == it.ph \in {"pktDelay", "crcDelay"}
                 clear == obs.jobs[it.j].clear IN
             /\ \A x \in HidNext(it.j) :
                   /\ x.ph \in Successors(it.ph, clear)
                   /\ delay \/ Accepted(it.ph, r)
                   /\ x.ph = "calc" => it.n >= obs.jobs[it.j].size \/ it.ph = "init"
                   /\ x.ph = "packets" => x.n < obs.jobs[it.j].size
                   /\ x.ph \in {"clear", "flash"} /\ it.ph = "getcrc" => r.v[3] = 1
             /\ Cardinality(HidNext(it.j)) <= 1
             /\ (~delay /\ ~Accepted(it.ph, r))
                   => /\ HidNext(it.j) = {}
                      /\ obs'.aborted[it.j] = obs.aborted[it.j] + 1
                      /\ obs'.hidSent[it.j] = obs.hidSent[it.j]
             /\ (HidNext(it.j) = {} /\ it.ph # "flash") => obs'.aborted[it.j] > 0]_vars

\* FLASH_FW was sent after CLEAR_USER_DATA, and after a poll that was not ready
C32_Witness ==
    \E j \in Started :
        /\ obs.hidSent[j] = {"clear", "flash"}
        /\ obs.jobs[j].clear
        /\ obs.jobs[j].size > ImageLen
        /\ obs.completed[j] > 0

\* C34: GET_FW_CRC is polled at most MAXIMUM_RETRIES times; the first poll with status
\* 0x01 ends the polling; when the last poll is not ready either, the job fails and
\* FLASH_FW is not sent
C34_CRCPollBudget ==
    [][\A it \in Pending("hid") :
         \A r \in HidReplies(World, it.ph) :
           (it.ph = "getcrc" /\ Commit(hidResume(take(World, it), it, r))) =>
             LET ready == Accepted(it.ph, r) /\ r.v[3] = 1
                 notReady == Accepted(it.ph, r) /\ r.v[3] # 1 IN
             /\ it.n < MAXIMUM_RETRIES
             /\ ready => \A x \in HidNext(it.j) : x.ph \in {"clear", "flash"}
             /\ (notReady /\ it.n + 1 < MAXIMUM_RETRIES)
                   => HidNext(it.j) = {HidItem(it.j, "crcDelay", it.n + 1)}
             /\ (notReady /\ it.n + 1 = MAXIMUM_RETRIES)
                   => /\ HidNext(it.j) = {}
                      /\ obs'.aborted[it.j] = obs.aborted[it.j] + 1
                      /\ obs'.hidSent[it.j] = {}
                      /\ ~comms'.communicating]_vars

\* the tenth poll is in flight
C34_Witness ==
    \E it \in Pending("hid") : it.ph = "getcrc" /\ it.n = MAXIMUM_RETRIES - 1

(***************************************************************************)
(* The packet loop of the USB-HID flasher                                  *)
(***************************************************************************)

Platforms == {"linux", "win32"}

numberOfBuffersToSend(platform) == IF platform = "win32" THEN 30 ELSE 60

PacketSizes ==
    {0, 1, MAXIMUM_FIRMWARE_PACKET_SIZE - 1, MAXIMUM_FIRMWARE_PACKET_SIZE,
     MAXIMUM_FIRMWARE_PACKET_SIZE + 1, 5 * MAXIMUM_FIRMWARE_PACKET_SIZE,
     30 * MAXIMUM_FIRMWARE_PACKET_SIZE, 30 * MAXIMUM_FIRMWARE_PACKET_SIZE + 1,
     60 * MAXIMUM_FIRMWARE_PACKET_SIZE + 1}

\* the bytes of an image differ from place to place, so that a payload taken
\* from the wrong place is a different payload
PacketImage(length) == [k \in 1..length |-> (7 * k + (k \div 256)) % 256]

numberOfBytesAt(length, offset) ==
    IF MAXIMUM_FIRMWARE_PACKET_SIZE < length - offset
    THEN MAXIMUM_FIRMWARE_PACKET_SIZE ELSE length - offset

firmwarePacketFromStart(firmwareData, offset, numberOfBytes) ==
    <<AM_BOOTLOADER_SET_SRAM_FIRMWARE_PACKET, offset % 256, (offset \div 256) % 256,
      (offset \div 65536) % 256, (offset \div 16777216) % 256, numberOfBytes>>
    \o [j \in 1..numberOfBytes |-> firmwareData[j]]

firmwarePacket(firmwareData, offset, numberOfBytes) ==
    <<AM_BOOTLOADER_SET_SRAM_FIRMWARE_PACKET, offset % 256, (offset \div 256) % 256,
      (offset \div 65536) % 256, (offset \div 16777216) % 256, numberOfBytes>>
    \o [j \in 1..numberOfBytes |-> firmwareData[offset + j]]

\* one pass of the inner loop: a packet is pushed, or the loop is left
packetLoopStep(r) ==
    LET offset == r.i + r.totalNumberOfBytes
        numberOfBytes == numberOfBytesAt(Len(r.firmwareData), offset)
    IN IF r.numberOfBuffers < numberOfBuffersToSend(r.platform) /\ numberOfBytes # 0
       THEN [r EXCEPT !.totalNumberOfBytes = @ + numberOfBytes,
                      !.numberOfBuffers = @ + 1,
                      !.buffers = Append(@, firmwarePacket(r.firmwareData, offset, numberOfBytes))]
       ELSE [r EXCEPT !.at = "await"]

\* the batch is sent and acknowledged: i advances and the outer loop tests it
packetBatchSent(r) ==
    LET i == r.i + r.totalNumberOfBytes
    IN [r EXCEPT !.i = i, !.batches = Append(@, r.buffers),
                 !.numberOfBuffers = 0, !.totalNumberOfBytes = 0, !.buffers = <<>>,
                 !.at = IF i < Len(r.firmwareData) THEN "inner" ELSE "done"]

InitPackets ==
    /\ comms = InitComms
    /\ app = InitApp
    /\ mainProc = [flashProgressBar |-> FALSE]
    /\ loop = {}
    /\ env = InitEnv([mode |-> "absent", usbhid |-> FALSE, switch |-> FALSE])
    /\ \E platform \in Platforms, length \in PacketSizes :
          obs = [InitObs EXCEPT !.hidRun =
                   [@ EXCEPT !.platform = platform, !.firmwareData = PacketImage(length),
                             !.at = IF 0 < length THEN "inner" ELSE "done"]]

PacketLoopStep ==
    /\ obs.hidRun.at = "inner"
    /\ obs' = [obs EXCEPT !.hidRun = packetLoopStep(@)]
    /\ UNCHANGED <<comms, app, mainProc, loop, env>>

PacketBatchSent ==
    /\ obs.hidRun.at = "await"
    /\ obs' = [obs EXCEPT !.hidRun = packetBatchSent(@)]
    /\ UNCHANGED <<comms, app, mainProc, loop, env>>

NextPackets == PacketLoopStep \/ PacketBatchSent

SpecPackets == InitPackets /\ [][NextPackets]_vars

RECURSIVE Flatten(_)
Flatten(ss) == IF ss = <<>> THEN <<>> ELSE Head(ss) \o Flatten(Tail(ss))

PacketOffset(p) == p[2] + 256 * p[3] + 65536 * p[4] + 16777216 * p[5]

PacketPayload(p) == SubSeq(p, 7, Len(p))

\* C33: the SET_SRAM_FW_PACKET packets built so far start at offset 0 and are
\* contiguous, each carries 1..56 bytes that are the bytes of the image at its
\* offset, no batch holds more than 60 packets (30 on Windows), and when the
\* loop has ended i is the length of the image and every byte was sent once.
C33_PacketsCoverImage ==
    LET r == obs.hidRun
        B == r.firmwareData
        all == Flatten(r.batches) \o r.buffers
    IN r.at # "off" =>
       /\ \A n \in 1..Len(all) :
             LET p == all[n]
             IN /\ p[1] = AM_BOOTLOADER_SET_SRAM_FIRMWARE_PACKET
                /\ PacketOffset(p) = IF n = 1 THEN 0
                                     ELSE PacketOffset(all[n - 1]) + all[n - 1][6]
                /\ p[6] \in 1..MAXIMUM_FIRMWARE_PACKET_SIZE
                /\ Len(p) = 6 + p[6]
                /\ PacketPayload(p) = SubSeq(B, PacketOffset(p) + 1, PacketOffset(p) + p[6])
       /\ \A b \in 1..Len(r.batches) :
             Len(r.batches[b]) \in 1..(IF r.platform = "win32" THEN 30 ELSE 60)
       /\ Len(r.buffers) <= (IF r.platform = "win32" THEN 30 ELSE 60)
       /\ r.at = "done" =>
             /\ r.i = Len(B)
             /\ Flatten([n \in 1..Len(all) |-> PacketPayload(all[n])]) = B

C33_Witness ==
    /\ obs.hidRun.at = "done"
    /\ obs.hidRun.platform = "win32"
    /\ Len(obs.hidRun.batches) = 3
    /\ Len(obs.hidRun.batches[3]) = 1
    /\ Len(obs.hidRun.firmwareData) = 60 * MAXIMUM_FIRMWARE_PACKET_SIZE + 1


(***************************************************************************)
(* The splitting loop of sendFirmware                                      *)
(***************************************************************************)

SplitSizes ==
    {0, 1, BLOCK_SIZE - 1, BLOCK_SIZE, BLOCK_SIZE + 1, 2 * BLOCK_SIZE - 1, 2 * BLOCK_SIZE,
     3 * BLOCK_SIZE, 7 * BLOCK_SIZE + 5, 16 * BLOCK_SIZE, 16 * BLOCK_SIZE + 1,
     33 * BLOCK_SIZE - 1}

\* images of distinguishable bytes, and images that end in the filler byte
SplitImages ==
    {PacketImage(n) : n \in SplitSizes}
        \cup {[k \in 1..n |-> FILLER] : n \in {1, BLOCK_SIZE - 1, BLOCK_SIZE, BLOCK_SIZE + 1}}

\* buffer.slice(start)
slice(buffer, start) == SubSeq(buffer, start + 1, Len(buffer))

\* one pass of the splitting loop
splitStep(r) ==
    IF Len(r.buffer) > 0
    THEN [r EXCEPT !.splitBuffers = Append(@, splitBlock(r.buffer)),
                   !.buffer = slice(r.buffer, BLOCK_SIZE)]
    ELSE [r EXCEPT !.at = "done"]

InitSplit ==
    /\ comms = InitComms
    /\ app = InitApp
    /\ mainProc = [flashProgressBar |-> FALSE]
    /\ loop = {}
    /\ env = InitEnv([mode |-> "absent", usbhid |-> FALSE, switch |-> FALSE])
    /\ \E image \in SplitImages :
          obs = [InitObs EXCEPT !.splitRun = [image |-> image, buffer |-> image,
                                              splitBuffers |-> <<>>, at |-> "loop"]]

SplitStep ==
    /\ obs.splitRun.at = "loop"
    /\ obs' = [obs EXCEPT !.splitRun = splitStep(@)]
    /\ UNCHANGED <<comms, app, mainProc, loop, env>>

NextSplit == SplitStep

SpecSplit == InitSplit /\ [][NextSplit]_vars

\* C35: when the splitting loop of sendFirmware has ended, the image B is split
\* into exactly ceil(|B| / 128) blocks of 128 bytes each, and the blocks put end
\* to end are B followed by 0xFF bytes up to the next multiple of 128 (none
\* when |B| is a multiple of 128).
C35_SplitBlocks ==
    LET r == obs.splitRun
        B == r.image
        blocks == IF Len(B) % BLOCK_SIZE = 0 THEN Len(B) \div BLOCK_SIZE
                                             ELSE Len(B) \div BLOCK_SIZE + 1
    IN r.at = "done" =>
       /\ Len(r.splitBuffers) = blocks
       /\ \A b \in 1..Len(r.splitBuffers) : Len(r.splitBuffers[b]) = BLOCK_SIZE
       /\ Flatten(r.splitBuffers) =
             B \o [k \in 1..(blocks * BLOCK_SIZE - Len(B)) |-> 255]
       /\ Len(B) % BLOCK_SIZE = 0 => Flatten(r.splitBuffers) = B
       /\ blocks = NumBlocks(Len(B))

C35_Witness ==
    /\ obs.splitRun.at = "done"
    /\ Len(obs.splitRun.image) = 7 * BLOCK_SIZE + 5
    /\ Len(obs.splitRun.splitBuffers) = 8


(***************************************************************************)
(* The reset of the device after a serial flash                            *)
(***************************************************************************)

\* the awaited calls of the port discovery (getPortList, isInBootloader)
DiscoveryKinds == {"fbList", "fbList2", "cbsList", "opcbList", "opswList", "probe"}

\* the answer to 'r' is awaited for the requested flash of job j
ResetAwaited(j) ==
    /\ comms.completionFunction.k = "resetCb"
    /\ comms.completionFunction.j = j
    /\ comms.completionFunction.ph = "main"

\* the reset of job j has just been acknowledged
ResetAck(j) ==
    /\ [j |-> j, ph |-> "main"] \notin obs.resetAcked
    /\ [j |-> j, ph |-> "main"] \in obs'.resetAcked

\* what resetDevice and restartTimer do: the port is closed when 'r' is echoed,
\* resetTime runs from 0 to 7500 in steps of 100, Completed is reported once, by the
\* timer step that reaches 7500; a reset that is not acknowledged ends aborted
ResetOutcome ==
    \A j \in Jobs :
       /\ ResetAck(j) =>
             /\ ResetAwaited(j)
             /\ comms.port = "open"
             /\ comms'.port = "closed"
             /\ comms'.resetTime = 0
             /\ Pending("restartTimer") = {}
             /\ \E t \in loop' : t.k = "restartTimer" /\ t.j = j
       /\ RestartTimer => comms'.resetTime = comms.resetTime + RESET_CHECK_TIMEOUT_LENGTH
       /\ obs'.completed[j] # obs.completed[j] =>
             /\ RestartTimer
             /\ comms'.resetTime = RESET_TIMEOUT_LENGTH
             /\ [j |-> j, ph |-> "main"] \in obs.resetAcked
             /\ obs.completed[j] = 0
             /\ obs'.completed[j] = 1
       /\ (ResetAwaited(j) /\ ~ResetAwaited(j)' /\ ~ResetAck(j)) =>
             /\ obs'.aborted[j] > obs.aborted[j]
             /\ obs'.completed[j] = 0
             /\ \A t \in loop' : t.k # "restartTimer"

ResetOutcomeHolds == [][ResetOutcome]_vars

\* C36: after the device echoes 'r' the port is closed, then every 100 ms step of
\* the wait of up to 7500 ms looks the bootloader port up in the port discovery,
\* then success is reported exactly once; a reset that is not acknowledged ends the
\* job aborted, and Completed is never reported.
C36_ResetPollsDiscovery ==
    [][/\ ResetOutcome
       /\ (RestartTimer /\ comms'.resetTime < RESET_TIMEOUT_LENGTH)
             => \E d \in loop' \ loop : d.k \in DiscoveryKinds]_vars


(***************************************************************************)
(* The attempts to open the serial port                                    *)
(***************************************************************************)

\* the transfer of SpecXmodem without faults of the line, with a device that may be
\* detached or exchanged
NextOpen ==
    \/ Tick \/ ProbeStep
    \/ FirstDownloadedClick
    \/ FbListDone \/ OpcbListDone \/ OpswListDone \/ ReadFileDone
    \/ ResponseTimeout \/ ReadyTimeout \/ RestartTimer
    \/ OpcbRetry \/ OpcbOpen \/ OpswRetry \/ VersionRetry \/ WriteDelay
    \/ MainCompleted \/ MainBootloaderUpdated
    \/ PortOpened \/ PortOpenFailed \/ PortDataInSequence
    \/ DeviceChange

SpecOpen == InitXmodem /\ [][NextOpen]_vars

\* the step is an attempt of a port-opening phase that fails: no port name is
\* found, or the port that was found fails to open
AttemptFails ==
    \/ (OpcbListDone \/ OpswListDone) /\ ~Found(World)
    \/ PortOpenFailed /\ comms.portErrorCallback.k \in {"opcbPortError", "opswPortError"}

\* C37: in each port-opening phase the port is looked up at most
\* MAX_PORT_OPEN_ATTEMPTS = 5 times (the counter of the phase starts at 0 and counts
\* the attempts before this one); when the fifth attempt fails the job fails: the
\* failure is reported, the busy flag is cleared, the counter is 0 again and no
\* further attempt is scheduled.
C37_PortOpenBudget ==
    [][/\ (OpcbListDone \/ OpswListDone)
             => app.portOpenReattempts + 1 <= MAX_PORT_OPEN_ATTEMPTS
       /\ (AttemptFails /\ app.portOpenReattempts + 1 = MAX_PORT_OPEN_ATTEMPTS)
             => /\ ~comms'.communicating
                /\ app'.portOpenReattempts = 0
                /\ \E j \in Started : obs'.aborted[j] > obs.aborted[j]
                /\ \A it \in loop' : it.k \notin {"opcbRetry", "opswRetry"}]_vars


(***************************************************************************)
(* The budget of the ready handshake                                       *)
(***************************************************************************)

LastOutcomes ==
    {Value(<<0, 0, 0, 0, 0>>), Value(<<1, 0, 0, 0, 0>>),
     Outcome("null", NoResult), Outcome("undefined", NoResult)}

\* the attempts that throw before it
FailCounts == 0..(MAXIMUM_RETRIES + 1)

RepeatCounts == {1, MAXIMUM_RETRIES}

\* one pass of the loop of callWithRetry, and the tests after it
retryStep(r) ==
    IF r.at = "loop"
    THEN IF r.attempt < r.repeats
         THEN IF r.attempt < r.fails
              THEN [r EXCEPT !.calls = @ + 1, !.attempt = @ + 1]     \* catch: delay
              ELSE [r EXCEPT !.calls = @ + 1, !.result = r.last, !.at = "check"]  \* break
         ELSE [r EXCEPT !.at = "check"]
    ELSE [r EXCEPT !.at = "done",
                   !.returned = IF r.result.t = "undefined" THEN Thrown
                                ELSE IF r.result.t = "null" THEN Thrown
                                ELSE r.result]

InitRetry ==
    /\ comms = InitComms
    /\ app = InitApp
    /\ mainProc = [flashProgressBar |-> FALSE]
    /\ loop = {}
    /\ env = InitEnv([mode |-> "absent", usbhid |-> FALSE, switch |-> FALSE])
    /\ \E fails \in FailCounts, last \in LastOutcomes, repeats \in RepeatCounts :
          obs = [InitObs EXCEPT !.retryRun =
                   [@ EXCEPT !.fails = fails, !.last = last, !.repeats = repeats,
                             !.at = "loop"]]

RetryStep ==
    /\ obs.retryRun.at \in {"loop", "check"}
    /\ obs' = [obs EXCEPT !.retryRun = retryStep(@)]
    /\ UNCHANGED <<comms, app, mainProc, loop, env>>

NextRetry == RetryStep

SpecRetry == InitRetry /\ [][NextRetry]_vars

\* C39: callWithRetry invokes the operation at most `repeats` = 10 times, one
\* invocation after each that throws, and stops at the first invocation that
\* produces a response; it returns that response when it is neither undefined nor
\* null, and otherwise (also when all invocations threw) it throws.
C39_CallWithRetry ==
    LET r == obs.retryRun IN
    /\ r.calls <= r.repeats
    /\ r.calls <= MAXIMUM_RETRIES
    /\ r.calls <= r.fails + 1
    /\ r.at = "done" =>
          /\ r.calls = IF r.fails < r.repeats THEN r.fails + 1 ELSE r.repeats
          /\ r.returned = IF r.fails < r.repeats /\ r.last.t = "value" THEN r.last
                          ELSE Thrown
          /\ r.returned = callWithRetry(r.fails, r.last, r.repeats)

C39_Witness ==
    /\ obs.retryRun.at = "done"
    /\ obs.retryRun.repeats = MAXIMUM_RETRIES
    /\ obs.retryRun.fails = MAXIMUM_RETRIES - 1
    /\ obs.retryRun.calls = MAXIMUM_RETRIES
    /\ obs.retryRun.returned = Value(<<1, 0, 0, 0, 0>>)


(***************************************************************************)
(* The status loop when a probe outlasts the interval of its timer         *)
(***************************************************************************)

\* the timer of updateStatusText fires: it was set when the probe before was
\* started, not when it ended
TickOverlapping ==
    /\ Cardinality(Pending("probe")) < MaxOverlap
    /\ Commit(updateStatusText(World))

NextProbes == TickOverlapping \/ ProbeStep \/ DeviceChange

SpecProbes == Init /\ [][NextProbes]_vars

\* C40: at most one status probe is in flight at a time: updateStatusText starts
\* no probe while the port enumeration or an HID query of the probe before is
\* pending.
C40_OneProbeInFlight == Cardinality(Pending("probe")) <= 1

====
